---------------------------- MODULE Spec2Model ----------------------------
(***************************************************************************)
(* A model of the KeyValueStore library: the abstract store contract, the  *)
(* MemoryKeyValueStore (an unordered_map guarded by a shared_mutex) and    *)
(* the SQLiteKeyValueStore (one table, five prepared statements, a type    *)
(* tagged text serialization of the values).                               *)
(*                                                                         *)
(* A std::string is a sequence of characters; a character is a one-letter  *)
(* TLA+ string, and NUL stands for the zero byte, which a std::string may  *)
(* hold but which ends a C string.                                         *)
(***************************************************************************)
EXTENDS Integers, Sequences, FiniteSets, TLC

\* ------------------------------------------------------------------------
\* Bounds of the model
\* ------------------------------------------------------------------------

\* The largest number of (script id, key) pairs that hold a value at one
\* time in the model; Set is disabled for a new pair beyond it.
MaxEntries == 3

\* ------------------------------------------------------------------------
\* Characters and strings
\* ------------------------------------------------------------------------

\* The zero byte.
NUL == "NUL"

\* The vertical tab.
VT == "VT"

DigitChars == <<"0", "1", "2", "3", "4", "5", "6", "7", "8", "9">>

DigitSet == {DigitChars[i] : i \in 1..10}

IsDigit(c) == c \in DigitSet

\* The value of each digit character.
DigitValues == [c \in DigitSet |-> (CHOOSE i \in 1..10 : DigitChars[i] = c) - 1]

DigitVal(c) == DigitValues[c]

\* isspace() in the "C" locale, as strtol and strtod use it on the leading
\* characters.
SpaceSet == {" ", "\t", "\n", "\r", "\f", VT}

IsSpace(c) == c \in SpaceSet

\* The C string that c_str() hands to a function reading up to the first zero
\* byte: sqlite3_bind_text(..., -1, ...) binds exactly this prefix, and
\* std::string(const char*) copies exactly this prefix.
CStr(s) ==
    IF \E i \in 1..Len(s) : s[i] = NUL
    THEN SubSeq(s, 1, (CHOOSE i \in 1..Len(s) :
                          /\ s[i] = NUL
                          /\ \A j \in 1..(i - 1) : s[j] # NUL) - 1)
    ELSE s

\* The first index at or after i that holds no white space (Len(s)+1 if none).
RECURSIVE SkipSpace(_, _)
SkipSpace(s, i) ==
    IF i <= Len(s) /\ IsSpace(s[i]) THEN SkipSpace(s, i + 1) ELSE i

\* The first index at or after i that holds no digit.
RECURSIVE SkipDigits(_, _)
SkipDigits(s, i) ==
    IF i <= Len(s) /\ IsDigit(s[i]) THEN SkipDigits(s, i + 1) ELSE i

\* ------------------------------------------------------------------------
\* int: the 32 bit signed integer of ValueType and of script_id
\* ------------------------------------------------------------------------

INT_MAX == 2147483647
INT_MIN == -INT_MAX - 1

\* The decimal digits of -m, for m <= 0 (the magnitude is never negated, so
\* INT_MIN needs no wider type).
RECURSIVE NegDigits(_)
NegDigits(m) ==
    IF m > -10
    THEN <<DigitChars[1 - m]>>
    ELSE LET d == (10 - (m % 10)) % 10
         IN  Append(NegDigits((m + d) \div 10), DigitChars[d + 1])

\* std::to_string(int).
to_string(n) == IF n < 0 THEN <<"-">> \o NegDigits(n) ELSE NegDigits(-n)

\* The digits s[i..j-1] accumulated as a non-positive number that may not go
\* below limit: [ovf, acc].
RECURSIVE AccNeg(_, _, _, _, _)
AccNeg(s, i, j, limit, acc) ==
    IF i >= j
    THEN [ovf |-> FALSE, acc |-> acc]
    ELSE LET d == DigitVal(s[i])
         IN  IF acc < (limit + d + 9) \div 10
             THEN [ovf |-> TRUE, acc |-> acc]
             ELSE AccNeg(s, i + 1, j, limit, acc * 10 - d)

\* std::stoi(str, &pos): strtol in base 10 and the range check of int.
\* err is "none", "invalid_argument" (no digits) or "out_of_range"; stoi
\* throws in the last two cases and sets pos only in the first.
stoi(s) ==
    LET b   == SkipSpace(s, 1)
        sgn == b <= Len(s) /\ s[b] \in {"+", "-"}
        neg == b <= Len(s) /\ s[b] = "-"
        d0  == IF sgn THEN b + 1 ELSE b
        d1  == SkipDigits(s, d0)
        r   == AccNeg(s, d0, d1, IF neg THEN INT_MIN ELSE -INT_MAX, 0)
    IN  IF d1 = d0
        THEN [err |-> "invalid_argument", value |-> 0, pos |-> 0]
        ELSE IF r.ovf
        THEN [err |-> "out_of_range", value |-> 0, pos |-> 0]
        ELSE [err |-> "none",
              value |-> IF neg THEN r.acc ELSE -r.acc,
              pos |-> d1 - 1]

\* ------------------------------------------------------------------------
\* double
\* ------------------------------------------------------------------------
\* A double is held as the decimal number that identifies it: its sign, its
\* class and, for a finite non-zero value, its significant digits d1 d2 ... dn
\* (d1 # "0", dn # "0", n <= max_digits10) and its decimal exponent exp, the
\* value being d1.d2...dn * 10^exp.  IEEE 754 makes max_digits10 = 17
\* significant digits enough to tell any two doubles apart, so two doubles are
\* equal iff these records are.  NaN, which no comparison finds equal to
\* itself, is left out of the values the model stores.

\* std::numeric_limits<double>::max_digits10.
max_digits10 == 17

Zeros(n) == [i \in 1..n |-> "0"]

DZero == [cls |-> "zero", neg |-> FALSE, digits |-> <<>>, exp |-> 0]
DInf(neg) == [cls |-> "inf", neg |-> neg, digits |-> <<>>, exp |-> 0]
DNaN == [cls |-> "nan", neg |-> FALSE, digits |-> <<>>, exp |-> 0]
DFinite(neg, digits, exp) ==
    [cls |-> "finite", neg |-> neg, digits |-> digits, exp |-> exp]

\* The digits of DBL_MAX = 1.7976931348623157e+308 and of DBL_MIN =
\* 2.2250738585072014e-308, the smallest normal double.
DBL_MAX_DIGITS ==
    <<"1","7","9","7","6","9","3","1","3","4","8","6","2","3","1","5","7">>
DBL_MAX_EXP10 == 308
DBL_MIN_DIGITS ==
    <<"2","2","2","5","0","7","3","8","5","8","5","0","7","2","0","1","4">>
DBL_MIN_EXP10 == -308

\* a < b for two digit strings read as the fractions 0.a and 0.b.
RECURSIVE DigitsLess(_, _)
DigitsLess(a, b) ==
    IF b = <<>> THEN FALSE
    ELSE IF a = <<>> THEN \E i \in 1..Len(b) : b[i] # "0"
    ELSE IF DigitVal(a[1]) # DigitVal(b[1]) THEN DigitVal(a[1]) < DigitVal(b[1])
    ELSE DigitsLess(Tail(a), Tail(b))

\* The magnitude d1.d2...dn * 10^exp is above DBL_MAX / below DBL_MIN.
AboveDblMax(digits, exp) ==
    \/ exp > DBL_MAX_EXP10
    \/ exp = DBL_MAX_EXP10 /\ DigitsLess(DBL_MAX_DIGITS, digits)

BelowDblMin(digits, exp) ==
    \/ exp < DBL_MIN_EXP10
    \/ exp = DBL_MIN_EXP10 /\ DigitsLess(digits, DBL_MIN_DIGITS)

IsSubnormal(d) == d.cls = "finite" /\ BelowDblMin(d.digits, d.exp)

\* The exponent field of the %e form: a sign and at least two digits.
ExpField(x) ==
    LET mag == IF x < 0 THEN NegDigits(x) ELSE NegDigits(-x)
    IN  <<"e", IF x < 0 THEN "-" ELSE "+">>
        \o (IF Len(mag) < 2 THEN <<"0">> \o mag ELSE mag)

\* operator<<(double) on a stream with precision(max_digits10) and the default
\* floatfield, that is printf("%.17g"): fixed notation when the exponent is
\* in [-4, 17), scientific notation otherwise, trailing zeros and a bare
\* decimal point removed.
FormatDouble(d) ==
    LET sign == IF d.neg THEN <<"-">> ELSE <<>>
        n    == Len(d.digits)
        x    == d.exp
    IN  CASE d.cls = "zero" -> sign \o <<"0">>
          [] d.cls = "inf"  -> sign \o <<"i", "n", "f">>
          [] d.cls = "nan"  -> sign \o <<"n", "a", "n">>
          [] OTHER ->
               IF x >= 0 /\ x < max_digits10
               THEN IF n <= x + 1
                    THEN sign \o d.digits \o Zeros(x + 1 - n)
                    ELSE sign \o SubSeq(d.digits, 1, x + 1) \o <<".">>
                              \o SubSeq(d.digits, x + 2, n)
               ELSE IF x < 0 /\ x >= -4
               THEN sign \o <<"0", ".">> \o Zeros(-x - 1) \o d.digits
               ELSE sign \o <<d.digits[1]>>
                         \o (IF n > 1 THEN <<".">> \o SubSeq(d.digits, 2, n)
                                      ELSE <<>>)
                         \o ExpField(x)

\* s holds the letters of word at index i onwards (strtod matches "inf" and
\* "nan" in either case; the model's strings hold them in lower case only).
StartsWith(s, i, word) ==
    /\ i + Len(word) - 1 <= Len(s)
    /\ \A k \in 1..Len(word) : s[i + k - 1] = word[k]

\* The number of leading "0" of a digit string.
RECURSIVE LeadingZeros(_)
LeadingZeros(ds) ==
    IF ds # <<>> /\ ds[1] = "0" THEN 1 + LeadingZeros(Tail(ds)) ELSE 0

\* A digit string without its trailing "0".
RECURSIVE StripTrailingZeros(_)
StripTrailingZeros(ds) ==
    IF ds # <<>> /\ ds[Len(ds)] = "0"
    THEN StripTrailingZeros(SubSeq(ds, 1, Len(ds) - 1))
    ELSE ds

\* The largest exponent magnitude the parser keeps; every longer exponent
\* field is far outside the range of double on its side.
EXP_CAP == 99999

\* The value of the exponent digits s[i..j-1], capped at EXP_CAP.
RECURSIVE ExpDigits(_, _, _, _)
ExpDigits(s, i, j, acc) ==
    IF i >= j THEN acc
    ELSE IF acc * 10 + DigitVal(s[i]) > EXP_CAP THEN EXP_CAP
    ELSE ExpDigits(s, i + 1, j, acc * 10 + DigitVal(s[i]))

\* std::stod(str, &pos): strtod and the errno check of libstdc++.  strtod
\* skips white space, reads a sign, then "inf", "nan" or a decimal number
\* with an optional fraction and an optional exponent (hexadecimal numbers
\* are not modelled).  err is "invalid_argument" when nothing was converted
\* and "out_of_range" when strtod set ERANGE, which glibc does on overflow
\* and whenever the result is below the smallest normal double.  pos is the
\* number of characters read.  The conversion is written as the steps of the
\* scan, each handing what it has read to the next.

\* The range check: dig are the significant digits, rounded to max_digits10,
\* and x the decimal exponent of the first of them.
strtod_range(neg, last, x, dig) ==
    IF AboveDblMax(dig, x) \/ BelowDblMin(dig, x)
    THEN [err |-> "out_of_range", value |-> DZero, pos |-> 0]
    ELSE [err |-> "none", value |-> DFinite(neg, dig, x), pos |-> last]

\* sig are the digits read without leading and trailing zeros.
strtod_round(neg, last, x, sig) ==
    IF sig = <<>>
    THEN [err |-> "none", value |-> [DZero EXCEPT !.neg = neg], pos |-> last]
    ELSE strtod_range(neg, last, x,
             IF Len(sig) > max_digits10
             THEN StripTrailingZeros(SubSeq(sig, 1, max_digits10))
             ELSE sig)

\* all are the digits of the integer part (intlen of them) and the fraction,
\* lz the number of leading zeros among them, e the exponent read.
strtod_digits(neg, last, all, intlen, e, lz) ==
    strtod_round(neg, last, intlen - 1 - lz + e,
                 StripTrailingZeros(SubSeq(all, lz + 1, Len(all))))

\* The exponent field s[e0..e1-1] counts only when it has a digit.
strtod_exponent(s, neg, i0, i1, f0, f1, hasE, eneg, e0, e1) ==
    LET useE == hasE /\ e1 > e0
        all  == SubSeq(s, i0, i1 - 1) \o SubSeq(s, f0, f1 - 1)
    IN  strtod_digits(neg, IF useE THEN e1 - 1 ELSE f1 - 1, all, i1 - i0,
            IF useE
            THEN (IF eneg THEN -1 ELSE 1) * ExpDigits(s, e0, e1, 0)
            ELSE 0,
            LeadingZeros(all))

\* The integer part is s[i0..i1-1] and the fraction s[f0..f1-1].
strtod_mantissa(s, neg, i0, i1, f0, f1) ==
    IF ~((i1 > i0) \/ (f1 > f0))
    THEN [err |-> "invalid_argument", value |-> DZero, pos |-> 0]
    ELSE LET hasE == f1 <= Len(s) /\ s[f1] \in {"e", "E"}
             es   == f1 + 1 <= Len(s) /\ s[f1 + 1] \in {"+", "-"}
             e0   == IF es THEN f1 + 2 ELSE f1 + 1
         IN  strtod_exponent(s, neg, i0, i1, f0, f1, hasE,
                 f1 + 1 <= Len(s) /\ s[f1 + 1] = "-", e0,
                 IF hasE THEN SkipDigits(s, e0) ELSE e0)

strtod_fraction(s, neg, i0, i1) ==
    LET dot == i1 <= Len(s) /\ s[i1] = "."
    IN  strtod_mantissa(s, neg, i0, i1, IF dot THEN i1 + 1 ELSE i1,
                        IF dot THEN SkipDigits(s, i1 + 1) ELSE i1)

\* i0 is the index after the white space and the sign.
strtod_number(s, neg, i0) ==
    IF StartsWith(s, i0, <<"i", "n", "f">>)
    THEN [err |-> "none", value |-> DInf(neg), pos |-> i0 + 2]
    ELSE IF StartsWith(s, i0, <<"n", "a", "n">>)
    THEN [err |-> "none", value |-> DNaN, pos |-> i0 + 2]
    ELSE strtod_fraction(s, neg, i0, SkipDigits(s, i0))

strtod_sign(s, b) ==
    strtod_number(s, b <= Len(s) /\ s[b] = "-",
                  IF b <= Len(s) /\ s[b] \in {"+", "-"} THEN b + 1 ELSE b)

stod(s) == strtod_sign(s, SkipSpace(s, 1))

\* ------------------------------------------------------------------------
\* ValueType and KeyValueStoreError
\* ------------------------------------------------------------------------
\* ValueType = std::variant<std::string, int, double, bool>: kind names the
\* alternative held and the field of that alternative carries the value; the
\* other fields are at their defaults.

Text(str) ==
    [i |-> 0, s |-> str,  d |-> DZero, b |-> FALSE, kind |-> "string"]
Integer(n) ==
    [i |-> n, s |-> <<>>, d |-> DZero, b |-> FALSE, kind |-> "int"]
Real(x) ==
    [i |-> 0, s |-> <<>>, d |-> x,     b |-> FALSE, kind |-> "double"]
Boolean(flag) ==
    [i |-> 0, s |-> <<>>, d |-> DZero, b |-> flag,  kind |-> "bool"]

\* std::optional<ValueType>: the empty set is std::nullopt, {v} holds v.
nullopt == {}
Some(v) == {v}

\* ------------------------------------------------------------------------
\* SQLiteKeyValueStore: serialization
\* ------------------------------------------------------------------------

\* serializeValue: the string and the type indicator of a value.
serializeValue(value) ==
    CASE value.kind = "string" -> [str |-> value.s, type |-> "s"]
      [] value.kind = "int"    -> [str |-> to_string(value.i), type |-> "i"]
      [] value.kind = "double" -> [str |-> FormatDouble(value.d), type |-> "d"]
      [] value.kind = "bool"   ->
             [str |-> IF value.b THEN <<"1">> ELSE <<"0">>, type |-> "b"]

\* A conversion that raised KeyValueStoreError.
Failed == [threw |-> TRUE, value |-> Text(<<>>)]

\* The integer branch after stoi: r is what stoi returned and len the size
\* of the string; a std::exception and pos != size both end in the error.
CheckedInt(r, len) ==
    IF r.err # "none" \/ r.pos # len
    THEN Failed
    ELSE [threw |-> FALSE, value |-> Integer(r.value)]

\* The double branch after stod.
CheckedDouble(r, len) ==
    IF r.err # "none" \/ r.pos # len
    THEN Failed
    ELSE [threw |-> FALSE, value |-> Real(r.value)]

\* deserializeValue: threw tells that it raised KeyValueStoreError, which it
\* does for an unknown indicator, for a number that stoi or stod rejects or
\* does not read to the end of the string, and for a boolean other than "1"
\* and "0".
deserializeValue(value_str, type_indicator) ==
    CASE type_indicator = "s" ->
           [threw |-> FALSE, value |-> Text(value_str)]
      [] type_indicator = "i" ->
           CheckedInt(stoi(value_str), Len(value_str))
      [] type_indicator = "d" ->
           CheckedDouble(stod(value_str), Len(value_str))
      [] type_indicator = "b" ->
           IF value_str = <<"1">>
           THEN [threw |-> FALSE, value |-> Boolean(TRUE)]
           ELSE IF value_str = <<"0">>
           THEN [threw |-> FALSE, value |-> Boolean(FALSE)]
           ELSE Failed
      [] OTHER -> Failed

\* ------------------------------------------------------------------------
\* MemoryKeyValueStore
\* ------------------------------------------------------------------------
\* store_ is an unordered_map<KeyType, ValueType>; the model holds it as the
\* set of its elements, each a pair [first |-> key, second |-> value].

\* A faulty makeKey that keeps the script id in an unsigned field of the
\* same width less one bit: the sign is lost.
makeKeyLosingSign(script_id, key) ==
    <<IF script_id < 0 THEN -(script_id + 1) ELSE script_id, key>>

\* makeKey: the pair of the script id and the key.
makeKey(script_id, key) == <<script_id, key>>

\* The elements of the map stored under key k (find, contains and erase(k)
\* all act on these).
Find(map, k) == {e \in map : e.first = k}

\* set: store_[makeKey(script_id, key)] = value.  operator[] finds the
\* element of the key, or inserts one, and the assignment replaces its value.
Memory_set(map, script_id, key, value) ==
    LET k == makeKey(script_id, key)
    IN  (map \ Find(map, k)) \cup {[first |-> k, second |-> value]}

\* get: find, and the value of the element found, or std::nullopt.
Memory_get(map, script_id, key) ==
    LET hit == Find(map, makeKey(script_id, key))
    IN  IF hit # {} THEN Some((CHOOSE e \in hit : TRUE).second) ELSE nullopt

\* exists: store_.contains.
Memory_exists(map, script_id, key) == Find(map, makeKey(script_id, key)) # {}

\* remove: store_.erase(key) > 0, with the map it leaves.
Memory_remove(map, script_id, key) ==
    LET hit == Find(map, makeKey(script_id, key))
    IN  [map |-> map \ hit, ret |-> Cardinality(hit) > 0]

\* The loop of remove_all over the elements not yet visited: an element of
\* the script is erased and counted, any other is stepped over.
RECURSIVE RemoveAllLoop(_, _, _, _)
RemoveAllLoop(todo, map, script_id, count) ==
    IF todo = {}
    THEN [map |-> map, ret |-> count]
    ELSE LET it == CHOOSE e \in todo : TRUE
         IN  IF it.first[1] = script_id
             THEN RemoveAllLoop(todo \ {it}, map \ {it}, script_id, count + 1)
             ELSE RemoveAllLoop(todo \ {it}, map, script_id, count)

\* A faulty remove_all that counts every element it visits.
Memory_remove_all_CountsEveryElement(map, script_id) ==
    [map |-> {e \in map : e.first[1] # script_id}, ret |-> Cardinality(map)]

\* remove_all: the scan of the whole map.
Memory_remove_all(map, script_id) == RemoveAllLoop(map, map, script_id, 0)

\* ------------------------------------------------------------------------
\* SQLiteKeyValueStore
\* ------------------------------------------------------------------------
\* The table key_value_store is the set of its rows, each
\* [script_id, key, value, type] with the three TEXT columns as strings.

\* sqlite3_bind_text(stmt, n, str.c_str(), -1, SQLITE_STATIC): the text bound
\* is the C string at the pointer.
BindText(str) == CStr(str)

\* std::string(reinterpret_cast<const char*>(sqlite3_column_text(...))).
ColumnText(text) == CStr(text)

\* The rows "WHERE script_id = ? AND key = ?" selects.
RowsOfKey(rows, script_id, key) ==
    {r \in rows : r.script_id = script_id /\ r.key = key}

\* The rows "WHERE script_id = ?" selects.
RowsOfScript(rows, script_id) == {r \in rows : r.script_id = script_id}

\* A faulty INSERT that leaves the row in conflict in the table.
InsertKeepingConflicts(rows, row) == rows \cup {row}

\* INSERT OR REPLACE under PRIMARY KEY (script_id, key): the rows in conflict
\* with the new row are deleted, then the row is inserted.
InsertOrReplace(rows, row) ==
    (rows \ RowsOfKey(rows, row.script_id, row.key)) \cup {row}

\* set: the value serialized, the four parameters bound, the statement
\* stepped.  sqlite3_changes() is 1 after an INSERT.
SQLite_set(rows, script_id, key, value) ==
    LET ser == serializeValue(value)
        row == [script_id |-> script_id,
                key       |-> BindText(key),
                value     |-> BindText(ser.str),
                type      |-> <<ser.type>>]
    IN  [rows |-> InsertOrReplace(rows, row), changes |-> 1, threw |-> FALSE]

\* get: SQLITE_ROW yields the two columns of the row, which are
\* deserialized; any other step result yields std::nullopt.
SQLite_get(rows, script_id, key) ==
    LET hit == RowsOfKey(rows, script_id, BindText(key))
    IN  IF hit # {}
        THEN LET row            == CHOOSE r \in hit : TRUE
                 value_str      == ColumnText(row.value)
                 type_indicator == IF row.type = <<>> THEN NUL ELSE row.type[1]
                 r              == deserializeValue(value_str, type_indicator)
             IN  [threw |-> r.threw,
                  ret   |-> IF r.threw THEN nullopt ELSE Some(r.value)]
        ELSE [threw |-> FALSE, ret |-> nullopt]

\* exists: sqlite3_step(...) == SQLITE_ROW.
SQLite_exists(rows, script_id, key) ==
    [threw |-> FALSE, ret |-> RowsOfKey(rows, script_id, BindText(key)) # {}]

\* A faulty remove that returns whether the table held a row before the
\* DELETE, not whether the DELETE changed one.
SQLite_remove_AnyRow(rows, script_id, key) ==
    LET hit == RowsOfKey(rows, script_id, BindText(key))
    IN  [rows |-> rows \ hit, changes |-> Cardinality(hit), threw |-> FALSE,
         ret |-> rows # {}]

\* remove: the DELETE of the row of the key; sqlite3_changes() > 0.
SQLite_remove(rows, script_id, key) ==
    LET hit == RowsOfKey(rows, script_id, BindText(key))
    IN  [rows |-> rows \ hit, changes |-> Cardinality(hit), threw |-> FALSE,
         ret |-> Cardinality(hit) > 0]

\* remove_all: the DELETE of the rows of the script; sqlite3_changes().
SQLite_remove_all(rows, script_id) ==
    LET hit == RowsOfScript(rows, script_id)
    IN  [rows |-> rows \ hit, changes |-> Cardinality(hit), threw |-> FALSE,
         ret |-> Cardinality(hit)]

\* The statements in the middle of an execution after a SELECT statement
\* was reset and stepped once: sqlite3_reset ends the execution the last call
\* left, and the one sqlite3_step leaves the statement on its row when it
\* returned SQLITE_ROW and finished when it returned SQLITE_DONE.  No
\* operation resets a statement after stepping it.  (The INSERT and DELETE
\* statements end each step with SQLITE_DONE, finished.)
StepSelect(stmts, stmt, row) ==
    IF row THEN stmts \cup {stmt} ELSE stmts \ {stmt}

\* The rows the database file holds, which other connections and a later
\* instance see.  The connection of the instance runs in autocommit mode:
\* SQLite commits the changes of a statement when the statement finishes
\* and no other writing statement of the connection is active; until then
\* they belong to an open write transaction.  held is empty when no
\* transaction is open, else it holds the rows of the last commit.
Committed(rows, held) == IF held = {} THEN rows ELSE CHOOSE r \in held : TRUE

\* A faulty schema script that drops the table before it creates it.
DropAndCreateSchema(rows) == {}

\* initializeSchema: CREATE TABLE IF NOT EXISTS and CREATE INDEX IF NOT
\* EXISTS leave the rows of a table that exists as they are.
initializeSchema(rows) == rows

\* ------------------------------------------------------------------------
\* MockKeyValueStore: the reference implementation of the contract
\* ------------------------------------------------------------------------
\* The tests' MockKeyValueStore holds a std::map from (script_id, key) to the
\* value; the model holds it as the function from the keys present to their
\* values.

EmptyMap == [k \in {} |-> Text(<<>>)]

\* std::make_pair(script_id, key), the key of the std::map of the mock.
make_pair(first, second) == <<first, second>>

Mock_set(map, script_id, key, value) ==
    LET k == make_pair(script_id, key)
    IN  [x \in (DOMAIN map) \cup {k} |-> IF x = k THEN value ELSE map[x]]

Mock_get(map, script_id, key) ==
    LET k == make_pair(script_id, key)
    IN  IF k \in DOMAIN map THEN Some(map[k]) ELSE nullopt

Mock_exists(map, script_id, key) == make_pair(script_id, key) \in DOMAIN map

Mock_remove(map, script_id, key) ==
    [x \in (DOMAIN map) \ {make_pair(script_id, key)} |-> map[x]]

Mock_remove_all(map, script_id) ==
    [x \in {y \in DOMAIN map : y[1] # script_id} |-> map[x]]

\* ------------------------------------------------------------------------
\* The calls of a program on one store
\* ------------------------------------------------------------------------

\* The script ids, keys and values the calls of the model are made with.  The
\* keys hold the empty key and two keys with the same C string; the values
\* are a string with a zero byte and the least int.
ScriptIds == {INT_MIN, INT_MAX}

Keys == {<<>>, <<"a">>, <<"a", NUL, "b">>}

Values == {Text(<<"x", NUL, "y">>), Integer(INT_MIN)}

VARIABLES
    backend,   \* which implementation of KeyValueStore the instance is
    store_,    \* MemoryKeyValueStore::store_
    table,     \* the rows of key_value_store as the connection sees them
    txn,       \* the write transaction the connection holds open, if any
    mock,      \* the reference map, given the same calls as the store
    last,      \* the last call made on the store and what it returned
    busy,      \* the prepared statements left in the middle of an execution
    pc,        \* where each thread stands in the call it is making
    calls,     \* the call each thread is making, or made last, and its result
    mutex_,    \* who holds mutex_, exclusively and shared
    disk,      \* what the file system holds at each path
    db_path,   \* the path the constructor was called with last
    ctor,      \* where the constructor stands, or how it ended
    db_,       \* whether db_ owns a connection handle
    stmts,     \* the prepared statements that stmt_set_ ... own
    handles,   \* the connection handles SQLite holds open
    statements, \* the prepared statements SQLite holds
    files,     \* the committed rows of key_value_store in each database file
    opened,    \* the file each further instance has opened
    stores,    \* store_ of each further MemoryKeyValueStore
    actives,   \* the statements each further instance left active
    snap,      \* the rows the read transaction of each connection sees
    behind,    \* the connections whose read transaction is out of date
    wlock      \* the connection that holds the write lock of each file

\* The part of the state that belongs to the construction and destruction
\* of a SQLiteKeyValueStore; the calls on an instance leave it as it is.
con == <<disk, db_path, ctor, db_, stmts, handles, statements>>

\* The part of the state that belongs to the instances that exist beside
\* the one of store_ and table, and to the database files they open; the
\* calls on that one instance leave it as it is.
fleet == <<files, opened, stores, actives, snap, behind, wlock>>

\* The instances that exist beside the one of store_ and table, one for
\* each of two threads, and the database files they open.
Instances == {1, 2}

Files == {"a.db", "b.db"}

\* No further instance exists and the files hold no row.
NoInstances ==
    /\ files = [f \in Files |-> {}]
    /\ opened = [t \in Instances |-> "none"]
    /\ stores = [t \in Instances |-> {}]
    /\ actives = [t \in Instances |-> {}]
    /\ snap = [t \in Instances |-> {}]
    /\ behind = {}
    /\ wlock = [f \in Files |-> 0]

vars ==
    <<backend, store_, table, txn, mock, last, busy, pc, calls, mutex_, con,
      fleet>>

\* The threads that share the instance.
Threads == {1, 2, 3}

\* The part of the state that belongs to the threads; a call made with no
\* other call in progress leaves it as it is.
thr == <<pc, calls, mutex_>>

\* A thread that has made no call yet.  own is the value the thread's own
\* earlier calls left under its key: the value of its last set, absent
\* after its remove or remove_all.  fault is the SQLite call that failed in
\* the call.
NoRequest ==
    [value |-> nullopt, threw |-> FALSE, op |-> "none", own |-> nullopt,
     fault |-> "none", ret_value |-> nullopt, ret_bool |-> FALSE,
     ret_count |-> 0]

\* No thread is in a call and mutex_ is free.
InitThreads ==
    /\ pc = [t \in Threads |-> "idle"]
    /\ calls = [t \in Threads |-> NoRequest]
    /\ mutex_ = [unique |-> {}, shared |-> {}]

NoCall ==
    [value |-> nullopt, threw |-> FALSE, script_id |-> 0, key |-> <<>>,
     op |-> "none", ret_value |-> nullopt, ret_bool |-> FALSE,
     ret_count |-> 0, had |-> FALSE]

\* A faulty get that throws for a key the memory map does not hold, as
\* std::unordered_map::at would.
GetThrowingWhenAbsent(b, map, rows, script_id, key) ==
    IF b = "memory"
    THEN [threw |-> ~Memory_exists(map, script_id, key),
          ret |-> Memory_get(map, script_id, key)]
    ELSE SQLite_get(rows, script_id, key)

\* KeyValueStore::get on an instance of backend b holding map or rows:
\* [threw, ret].
GetOf(b, map, rows, script_id, key) ==
    IF b = "memory"
    THEN [threw |-> FALSE, ret |-> Memory_get(map, script_id, key)]
    ELSE SQLite_get(rows, script_id, key)

\* KeyValueStore::exists on such an instance: [threw, ret].
ExistsOf(b, map, rows, script_id, key) ==
    IF b = "memory"
    THEN [threw |-> FALSE, ret |-> Memory_exists(map, script_id, key)]
    ELSE SQLite_exists(rows, script_id, key)

\* What get(script_id, key) returns in the current state.
GetResult(script_id, key) == GetOf(backend, store_, table, script_id, key)

\* What exists(script_id, key) returns in the current state.
ExistsResult(script_id, key) ==
    ExistsOf(backend, store_, table, script_id, key)

\* The entries the store holds, as (script id, key) pairs.
Entries ==
    IF backend = "memory"
    THEN {e.first : e \in store_}
    ELSE {<<r.script_id, r.key>> : r \in table}

\* The paths a SQLiteKeyValueStore is constructed on, and what the file
\* system holds at each before the first construction: a path in a
\* directory that does not exist, a file that is not a database, a path
\* where no file exists yet, and a database file.
Paths == {"missing/kv.db", "notes.txt", "new.db", "kv.db"}

FreshDisk ==
    [p \in Paths |-> CASE p = "missing/kv.db" -> "no directory"
                       [] p = "notes.txt"     -> "not a database"
                       [] p = "new.db"        -> "absent"
                       [] OTHER               -> "database"]

\* A faulty constructor that never prepares the statement of exists.
PrepareOrderWithoutExists == <<"set", "get", "remove", "remove_all">>

\* The statements of the instance, in the order the constructor prepares
\* them.
PrepareOrder == <<"set", "get", "exists", "remove", "remove_all">>

\* The state the constructor leaves when it returns: db_ owns the
\* connection and the five members own their statements.
Constructed(path) ==
    /\ disk = [FreshDisk EXCEPT ![path] = "database"]
    /\ db_path = path
    /\ ctor = "constructed"
    /\ db_ = TRUE
    /\ stmts = {PrepareOrder[n] : n \in 1..Len(PrepareOrder)}
    /\ handles = 1
    /\ statements = {PrepareOrder[n] : n \in 1..Len(PrepareOrder)}

\* A MemoryKeyValueStore is constructed empty; a SQLiteKeyValueStore is
\* constructed on a new file, in which initializeSchema creates the table,
\* and its five statements are prepared.
Init ==
    /\ backend \in {"memory", "sqlite"}
    /\ store_ = {}
    /\ table = {}
    /\ mock = EmptyMap
    /\ last = NoCall
    /\ busy = {}
    /\ txn = {}
    /\ InitThreads
    /\ NoInstances
    /\ Constructed("new.db")

\* KeyValueStore::set, dispatched to the backend.
Set(script_id, key, value) ==
    /\ \/ Mock_exists(mock, script_id, key)
       \/ Cardinality(DOMAIN mock) < MaxEntries
    /\ IF backend = "memory"
       THEN /\ store_' = Memory_set(store_, script_id, key, value)
            /\ UNCHANGED table
            /\ last' = [NoCall EXCEPT !.op = "set", !.script_id = script_id,
                           !.key = key, !.value = Some(value),
                           !.had = ExistsResult(script_id, key).ret]
       ELSE LET r == SQLite_set(table, script_id, key, value)
            IN  /\ table' = r.rows
                /\ UNCHANGED store_
                /\ last' = [NoCall EXCEPT !.op = "set",
                               !.script_id = script_id, !.key = key,
                               !.value = Some(value),
                               !.had = ExistsResult(script_id, key).ret,
                               !.threw = r.threw]
    /\ mock' = Mock_set(mock, script_id, key, value)
    /\ UNCHANGED <<backend, fleet, con, txn, busy, thr>>

\* KeyValueStore::get.
Get(script_id, key) ==
    LET r == GetResult(script_id, key)
    IN  /\ last' = [NoCall EXCEPT !.op = "get", !.script_id = script_id,
                       !.key = key,
                       !.had = ExistsResult(script_id, key).ret,
                       !.threw = r.threw, !.ret_value = r.ret]
        /\ busy' = IF backend = "sqlite"
                   THEN StepSelect(busy, "get", ExistsResult(script_id, key).ret)
                   ELSE busy
        /\ UNCHANGED <<backend, fleet, con, txn, store_, table, mock, thr>>

\* KeyValueStore::exists.
Exists(script_id, key) ==
    LET r == ExistsResult(script_id, key)
    IN  /\ last' = [NoCall EXCEPT !.op = "exists", !.script_id = script_id,
                       !.key = key, !.had = r.ret,
                       !.threw = r.threw, !.ret_bool = r.ret]
        /\ busy' = IF backend = "sqlite"
                   THEN StepSelect(busy, "exists", r.ret)
                   ELSE busy
        /\ UNCHANGED <<backend, fleet, con, txn, store_, table, mock, thr>>

\* KeyValueStore::remove.
Remove(script_id, key) ==
    /\ IF backend = "memory"
       THEN LET r == Memory_remove(store_, script_id, key)
            IN  /\ store_' = r.map
                /\ UNCHANGED table
                /\ last' = [NoCall EXCEPT !.op = "remove",
                               !.script_id = script_id, !.key = key,
                               !.had = ExistsResult(script_id, key).ret,
                               !.ret_bool = r.ret]
       ELSE LET r == SQLite_remove(table, script_id, key)
            IN  /\ table' = r.rows
                /\ UNCHANGED store_
                /\ last' = [NoCall EXCEPT !.op = "remove",
                               !.script_id = script_id, !.key = key,
                               !.had = ExistsResult(script_id, key).ret,
                               !.threw = r.threw, !.ret_bool = r.ret]
    /\ mock' = Mock_remove(mock, script_id, key)
    /\ UNCHANGED <<backend, fleet, con, txn, busy, thr>>

\* KeyValueStore::remove_all.
RemoveAll(script_id) ==
    /\ IF backend = "memory"
       THEN LET r == Memory_remove_all(store_, script_id)
            IN  /\ store_' = r.map
                /\ UNCHANGED table
                /\ last' = [NoCall EXCEPT !.op = "remove_all",
                               !.script_id = script_id, !.ret_count = r.ret]
       ELSE LET r == SQLite_remove_all(table, script_id)
            IN  /\ table' = r.rows
                /\ UNCHANGED store_
                /\ last' = [NoCall EXCEPT !.op = "remove_all",
                               !.script_id = script_id, !.threw = r.threw,
                               !.ret_count = r.ret]
    /\ mock' = Mock_remove_all(mock, script_id)
    /\ UNCHANGED <<backend, fleet, con, txn, busy, thr>>

\* The SQLiteKeyValueStore is discarded and a new one is constructed on the
\* same file.  The destructor finalizes the five statements and closes the
\* connection; every INSERT and DELETE was committed when its step returned.
\* The constructor opens the file, runs initializeSchema and prepares the
\* statements anew.
Reopen ==
    /\ backend = "sqlite"
    /\ table' = initializeSchema(Committed(table, txn))
    /\ txn' = {}
    /\ busy' = {}
    /\ last' = [NoCall EXCEPT !.op = "reopen"]
    /\ UNCHANGED <<backend, fleet, con, store_, mock, thr>>

Next ==
    \/ \E script_id \in ScriptIds, key \in Keys, value \in Values :
           Set(script_id, key, value)
    \/ \E script_id \in ScriptIds, key \in Keys : Get(script_id, key)
    \/ \E script_id \in ScriptIds, key \in Keys : Exists(script_id, key)
    \/ \E script_id \in ScriptIds, key \in Keys : Remove(script_id, key)
    \/ \E script_id \in ScriptIds : RemoveAll(script_id)
    \/ Reopen

Spec == Init /\ [][Next]_vars

\* ------------------------------------------------------------------------
\* Round trips of single values
\* ------------------------------------------------------------------------
\* A second specification makes the same calls on one (script id, key) pair
\* with values of all four alternatives, the extremes of int and double among
\* them.

\* The 17 significant digits of the double nearest to 3.14.
Pi314 ==
    <<"3", "1", "4", "0", "0", "0", "0", "0", "0", "0", "0", "0", "0", "0",
      "0", "0", "1">>

\* The least positive double, a subnormal: 4.9406564584124654e-324.
DenormMinDigits ==
    <<"4", "9", "4", "0", "6", "5", "6", "4", "5", "8", "4", "1", "2", "4",
      "6", "5", "4">>

DenormMin == DFinite(FALSE, DenormMinDigits, -324)

RoundTripScriptIds == {0}

RoundTripKeys == {<<>>, <<"k">>}

RoundTripValues ==
    {Text(<<>>), Text(<<"h", "i">>), Text(<<"x", NUL, "y">>),
     Integer(INT_MIN), Integer(0), Integer(INT_MAX),
     Real(DZero), Real(DFinite(FALSE, Pi314, 0)),
     Real(DFinite(FALSE, DBL_MAX_DIGITS, DBL_MAX_EXP10)),
     Real(DFinite(TRUE, DBL_MIN_DIGITS, DBL_MIN_EXP10)),
     Real(DenormMin), Real(DInf(TRUE)),
     Boolean(TRUE), Boolean(FALSE)}

NextRoundTrip ==
    \/ \E script_id \in RoundTripScriptIds, key \in RoundTripKeys,
          value \in RoundTripValues : Set(script_id, key, value)
    \/ \E script_id \in RoundTripScriptIds, key \in RoundTripKeys :
           Get(script_id, key)
    \/ \E script_id \in RoundTripScriptIds, key \in RoundTripKeys :
           Exists(script_id, key)
    \/ \E script_id \in RoundTripScriptIds, key \in RoundTripKeys :
           Remove(script_id, key)
    \/ \E script_id \in RoundTripScriptIds : RemoveAll(script_id)

SpecRoundTrip == Init /\ [][NextRoundTrip]_vars

\* ------------------------------------------------------------------------
\* Properties
\* ------------------------------------------------------------------------

\* What get(script_id, key) returns under the contract: the value of the
\* last set of the pair that no remove or remove_all has taken away since.
Expected(script_id, key) ==
    [threw |-> FALSE, ret |-> Mock_get(mock, script_id, key)]

\* The (script id, key) pairs of partition script_id with an entry under the
\* contract.
EntriesOf(script_id) == {k \in DOMAIN mock : k[1] = script_id}

Writes == {"set", "remove", "remove_all"}

\* The stored data of the instance.
Stored == <<store_, table>>

\* What get and exists return in the state a step leads to.
GetAfter(script_id, key) == GetOf(backend', store_', table', script_id, key)

ExistsAfter(script_id, key) ==
    ExistsOf(backend', store_', table', script_id, key)

\* C1: a set, remove or remove_all addressed to one partition changes
\* neither the presence nor the value of any entry of another partition, so
\* that after set(P, K, v1) and set(Q, K, v2) get(P, K) returns v1 and
\* get(Q, K) returns v2.
C1_PartitionIsolation ==
    [][last'.op \in Writes =>
         /\ \A q \in ScriptIds \ {last'.script_id}, k \in Keys :
                /\ GetAfter(q, k) = GetResult(q, k)
                /\ ExistsAfter(q, k) = ExistsResult(q, k)
         /\ last'.op = "set" =>
                /\ GetAfter(last'.script_id, last'.key)
                       = [threw |-> FALSE, ret |-> last'.value]
                /\ \A q \in ScriptIds \ {last'.script_id} :
                       Mock_exists(mock', q, last'.key) =>
                           GetAfter(q, last'.key)
                               = [threw |-> FALSE,
                                  ret |-> Mock_get(mock', q, last'.key)]
      ]_vars

\* C2: a set on a pair that has an entry replaces the value, and the get that
\* follows returns exactly the value set last, in its own kind, whatever the
\* kind of the value it replaced.
C2_LastWriteWins ==
    (last.op = "set" /\ last.had) =>
        GetResult(last.script_id, last.key)
            = [threw |-> FALSE, ret |-> last.value]

\* C3: the store holds at most one value for a (partition, key) pair, never
\* two entries of one pair, and set does not fail on a pair that has an entry.
C3_AtMostOneValuePerKey ==
    /\ \A e1 \in store_, e2 \in store_ : e1.first = e2.first => e1 = e2
    /\ \A r1 \in table, r2 \in table :
           (r1.script_id = r2.script_id /\ r1.key = r2.key) => r1 = r2
    /\ (last.op = "set" /\ last.had) => ~last.threw

\* A set has replaced the value of a pair while the store holds other entries.
C3_Witness ==
    /\ last.op = "set"
    /\ last.had
    /\ Cardinality(Entries) >= 2

\* C4: once set(P, K, v) has returned, get(P, K) returns v and exists(P, K)
\* returns true in every state until the next set or remove of (P, K) or
\* remove_all of P.
C4_ReadAfterWrite ==
    \A k \in DOMAIN mock :
        /\ GetResult(k[1], k[2]) = Expected(k[1], k[2])
        /\ ExistsResult(k[1], k[2]) = [threw |-> FALSE, ret |-> TRUE]

\* C5: remove(P, K) does not fail, returns true exactly when (P, K) had an
\* entry, leaves (P, K) absent, and changes nothing when (P, K) had no entry.
C5_RemoveReportsPresence ==
    [][last'.op = "remove" =>
         /\ ~last'.threw
         /\ last'.ret_bool = Mock_exists(mock, last'.script_id, last'.key)
         /\ GetAfter(last'.script_id, last'.key)
                = [threw |-> FALSE, ret |-> nullopt]
         /\ ~ExistsAfter(last'.script_id, last'.key).ret
         /\ ~Mock_exists(mock, last'.script_id, last'.key) =>
                Stored' = Stored
      ]_vars

\* C6: remove_all(P) returns the number of entries partition P had, leaves
\* it without entries and leaves the entries of every other partition as
\* they were.
C6_RemoveAllCounts ==
    [][last'.op = "remove_all" =>
         /\ ~last'.threw
         /\ last'.ret_count = Cardinality(EntriesOf(last'.script_id))
         /\ \A e \in Entries' : e[1] # last'.script_id
         /\ \A k \in Keys : ~ExistsAfter(last'.script_id, k).ret
         /\ \A q \in ScriptIds \ {last'.script_id}, k \in Keys :
                /\ GetAfter(q, k) = GetResult(q, k)
                /\ ExistsAfter(q, k) = ExistsResult(q, k)
      ]_vars

C8_NotFoundIsNormal ==
    \A script_id \in ScriptIds, key \in Keys :
        ~Mock_exists(mock, script_id, key) =>
            /\ GetResult(script_id, key) = [threw |-> FALSE, ret |-> nullopt]
            /\ ExistsResult(script_id, key) = [threw |-> FALSE, ret |-> FALSE]

\* C9: in every state exists(P, K) returns true exactly when get(P, K)
\* returns a value.
C9_ExistsIffGetPresent ==
    \A script_id \in RoundTripScriptIds, key \in RoundTripKeys :
        ExistsResult(script_id, key).ret
            = (~GetResult(script_id, key).threw
                 /\ GetResult(script_id, key).ret # nullopt)

\* C10: a value of any of the four kinds that was set is returned by get
\* equal and in the same kind, the empty string as a present value, and
\* deserializeValue(serializeValue(v)) is v.
C10_RoundTrip ==
    /\ last.op = "set" =>
           /\ GetResult(last.script_id, last.key)
                  = [threw |-> FALSE, ret |-> last.value]
           /\ backend = "sqlite" =>
                  \A v \in last.value :
                      deserializeValue(serializeValue(v).str,
                                       serializeValue(v).type)
                          = [threw |-> FALSE, value |-> v]
    /\ last.op = "get" =>
           (Mock_exists(mock, last.script_id, last.key) =>
                /\ ~last.threw
                /\ last.ret_value = Mock_get(mock, last.script_id, last.key))

\* ------------------------------------------------------------------------
\* Values of different kinds with one textual form
\* ------------------------------------------------------------------------
\* A third specification makes the calls with the four values that all
\* serialize to the string "1", under two keys of one partition.

KindScriptIds == {1}

KindKeys == {<<"a">>, <<"a", NUL, "b">>}

KindValues ==
    {Integer(1), Boolean(TRUE), Text(<<"1">>), Real(DFinite(FALSE, <<"1">>, 0))}

NextKinds ==
    \/ \E script_id \in KindScriptIds, key \in KindKeys, value \in KindValues :
           Set(script_id, key, value)
    \/ \E script_id \in KindScriptIds, key \in KindKeys : Get(script_id, key)
    \/ \E script_id \in KindScriptIds, key \in KindKeys :
           Exists(script_id, key)
    \/ \E script_id \in KindScriptIds, key \in KindKeys :
           Remove(script_id, key)
    \/ \E script_id \in KindScriptIds : RemoveAll(script_id)

SpecKinds == Init /\ [][NextKinds]_vars

\* The type indicator of each kind of value.
TagOf(kind) ==
    CASE kind = "string" -> "s"
      [] kind = "int"    -> "i"
      [] kind = "double" -> "d"
      [] kind = "bool"   -> "b"

\* C11: the value get(P, K) returns has the kind of the value set last for
\* (P, K) and is that value, so that Integer 1, Boolean true, Text "1" and
\* Real 1.0 stay distinct, and the row a set writes carries the type
\* indicator of the kind of the value.
C11_NoTypeCoercion ==
    /\ \A k \in DOMAIN mock :
           \A v \in GetResult(k[1], k[2]).ret :
               v.kind = mock[k].kind /\ v = mock[k]
    /\ (backend = "sqlite" /\ last.op = "set") =>
           \A r \in RowsOfKey(table, last.script_id, BindText(last.key)) :
               \A v \in last.value : r.type = <<TagOf(v.kind)>>

\* C12: when a SQLiteKeyValueStore is discarded and a new one is constructed
\* on the same file, get and exists return for every (partition, key) pair
\* what they returned before, and the construction leaves every row of the
\* file as it was.
C12_Durability ==
    [][last'.op = "reopen" =>
         /\ table' = table
         /\ \A script_id \in ScriptIds, key \in Keys :
                /\ GetAfter(script_id, key) = GetResult(script_id, key)
                /\ ExistsAfter(script_id, key) = ExistsResult(script_id, key)
      ]_vars

\* A new instance was constructed on a file that holds rows of two entries.
C12_Witness ==
    /\ last.op = "reopen"
    /\ Cardinality(table) >= 2
    /\ \E script_id \in ScriptIds, key \in Keys :
           GetResult(script_id, key).ret # nullopt


\* ---------------------------------------------------------------------
\* Statement state after a call
\* ---------------------------------------------------------------------

\* C18: after any operation of the durable backend returns, none of its
\* prepared statements is left in the middle of an execution (and so no
\* read transaction is left open), in particular after a get or an exists
\* that found the entry.
C18_NoStatementLeftBusy ==
    (backend = "sqlite" /\ last.op # "none") => busy = {}


\* ---------------------------------------------------------------------
\* Rows the store did not write
\* ---------------------------------------------------------------------

\* The database file is an ordinary SQLite file: its table can hold a row
\* written by another program, with any text in the value and type columns.
ForeignScriptId == 1

ForeignKey == <<"k">>

ForeignTexts ==
    {<<>>, <<"1">>, <<"2">>, <<"4", "2">>, <<"4", "2", "a">>,
     <<"4", "2", NUL, "a">>, <<"1", NUL, "z">>, <<"1", ".", "5">>,
     <<"1", ".", "5", "x">>, <<"1", "e", "9", "9", "9">>,
     <<"2", "1", "4", "7", "4", "8", "3", "6", "4", "8">>}

ForeignTags ==
    {<<"s">>, <<"i">>, <<"d">>, <<"b">>, <<"x">>, <<"S">>, <<>>, <<"i", "x">>}

\* A SQLiteKeyValueStore constructed on a file whose table holds one such
\* row.
InitForeign ==
    /\ backend = "sqlite"
    /\ store_ = {}
    /\ \E text \in ForeignTexts, tag \in ForeignTags :
           table = initializeSchema({[script_id |-> ForeignScriptId,
                                      key |-> ForeignKey,
                                      value |-> text, type |-> tag]})
    /\ mock = EmptyMap
    /\ last = NoCall
    /\ busy = {}
    /\ txn = {}
    /\ InitThreads
    /\ NoInstances
    /\ Constructed("new.db")

NextForeign ==
    \/ Get(ForeignScriptId, ForeignKey)
    \/ Exists(ForeignScriptId, ForeignKey)

SpecForeign == InitForeign /\ [][NextForeign]_vars

\* The rows the contract lets get return a value for: the tag is one of the
\* four tags and the value string is, whole, a value of the tagged type.
WellFormedRow(row) ==
    /\ row.type \in {<<"s">>, <<"i">>, <<"d">>, <<"b">>}
    /\ ~deserializeValue(row.value, row.type[1]).threw

\* C20: get fails with KeyValueStoreError on a stored row whose tag is not
\* one of 's', 'i', 'd', 'b', whose 'i' or 'd' string does not parse
\* completely as a number of that type, or whose 'b' string is neither "1"
\* nor "0"; it never returns a default or partially parsed value.
C20_DeserializationNeverDefaults ==
    last.op = "get" =>
        \A row \in RowsOfKey(table, last.script_id, last.key) :
            ~WellFormedRow(row) => last.threw


\* ---------------------------------------------------------------------
\* Threads sharing one instance
\* ---------------------------------------------------------------------

\* Each thread t calls the store under its own script id, t, and one key,
\* with an integer and a text of its own and the smallest positive double.
ThreadKey == <<"k">>

ThreadValues(t) ==
    {Integer(t), Text(<<"x", NUL>> \o to_string(t)), Real(DenormMin)}

Operations == {"set", "get", "exists", "remove", "remove_all"}

\* The operations of MemoryKeyValueStore that take mutex_ shared.
Readers == {"get", "exists"}

\* A faulty mutex that grants an exclusive lock while it is held.
LockableWhileHeld(m) == TRUE

\* A faulty shared_mutex that grants a shared lock beside a writer.
LockableSharedBesideWriter(m) == TRUE

\* std::shared_mutex and std::mutex.  An exclusive lock is granted when
\* nobody holds the mutex, a shared lock when nobody holds it exclusively;
\* until then the constructor of the lock blocks.
Lockable(m) == m.unique = {} /\ m.shared = {}

LockableShared(m) == m.unique = {}

\* std::unique_lock lock(mutex_) and std::lock_guard<std::mutex>
\* lock(mutex_), once granted.
unique_lock(m, t) == [m EXCEPT !.unique = {t}]

\* std::shared_lock lock(mutex_), once granted.
shared_lock(m, t) == [m EXCEPT !.shared = @ \cup {t}]

\* A faulty lock whose destructor leaves the mutex held.
unlock_never(m, t) == m

\* A faulty lock whose destructor gives up shared ownership only.
unlock_shared(m, t) == [unique |-> m.unique, shared |-> m.shared \ {t}]

\* The destructor of the lock, run when the operation returns or throws.
unlock(m, t) == [unique |-> m.unique \ {t}, shared |-> m.shared \ {t}]

\* The value a call of set carries.
ValueOf(c) == CHOOSE v \in c.value : TRUE

\* The body of the operation of call c on a MemoryKeyValueStore holding
\* map: the map it leaves and the call with its result.
MemoryCall(map, script_id, c) ==
    CASE c.op = "set" ->
           [map  |-> Memory_set(map, script_id, ThreadKey, ValueOf(c)),
            call |-> c]
      [] c.op = "get" ->
           [map  |-> map,
            call |-> [c EXCEPT !.ret_value =
                                   Memory_get(map, script_id, ThreadKey)]]
      [] c.op = "exists" ->
           [map  |-> map,
            call |-> [c EXCEPT !.ret_bool =
                                   Memory_exists(map, script_id, ThreadKey)]]
      [] c.op = "remove" ->
           [map  |-> Memory_remove(map, script_id, ThreadKey).map,
            call |-> [c EXCEPT !.ret_bool =
                                   Memory_remove(map, script_id, ThreadKey).ret]]
      [] OTHER ->
           [map  |-> Memory_remove_all(map, script_id).map,
            call |-> [c EXCEPT !.ret_count =
                                   Memory_remove_all(map, script_id).ret]]

\* The step of the statement of call c on a SQLiteKeyValueStore whose table
\* holds rows, and what the operation makes of it: the rows it leaves and
\* the call with its result.
SQLiteCall(rows, script_id, c) ==
    CASE c.op = "set" ->
           [rows |-> SQLite_set(rows, script_id, ThreadKey, ValueOf(c)).rows,
            call |-> c]
      [] c.op = "get" ->
           [rows |-> rows,
            call |-> [c EXCEPT !.threw =
                                   SQLite_get(rows, script_id, ThreadKey).threw,
                               !.ret_value =
                                   SQLite_get(rows, script_id, ThreadKey).ret]]
      [] c.op = "exists" ->
           [rows |-> rows,
            call |-> [c EXCEPT !.ret_bool =
                                   SQLite_exists(rows, script_id, ThreadKey).ret]]
      [] c.op = "remove" ->
           [rows |-> SQLite_remove(rows, script_id, ThreadKey).rows,
            call |-> [c EXCEPT !.ret_bool =
                                   SQLite_remove(rows, script_id, ThreadKey).ret]]
      [] OTHER ->
           [rows |-> SQLite_remove_all(rows, script_id).rows,
            call |-> [c EXCEPT !.ret_count =
                                   SQLite_remove_all(rows, script_id).ret]]

\* sqlite3_reset of the statement of operation op, the first statement of
\* the operation after the lock.  No operation resets its statement when
\* sqlite3_step fails, so a statement that ended with SQLITE_BUSY is active
\* until here.  Resetting it ends it with its error: when it is the only
\* writing statement that is active, SQLite rolls the open transaction
\* back.
ResetStatement(active, rows, held, op) ==
    IF op \in active /\ active \cap Writes = {op}
    THEN [rows |-> Committed(rows, held), txn |-> {}]
    ELSE [rows |-> rows, txn |-> held]

\* The transaction the connection holds once a writing statement has
\* returned SQLITE_DONE on the table that held rows: none when no other
\* writing statement is active (the changes are committed), else the one
\* it held, or a new one that began with rows.
FinishWrite(active, rows, held) ==
    IF active \cap Writes = {} THEN {}
    ELSE IF held = {} THEN {rows} ELSE held

\* What a statement that ends with an error leaves of a transaction the
\* connection holds open: SQLite rolls back the changes of the statement
\* alone, or after SQLITE_IOERR, SQLITE_NOMEM and SQLITE_FULL the whole
\* transaction.
EndWithError(rows, held) ==
    {[rows |-> rows, txn |-> held],
     [rows |-> Committed(rows, held), txn |-> {}]}

\* What the operation of call c does when sqlite3_step returns an error
\* code: set, remove and remove_all compare the code with SQLITE_DONE and
\* throw; get and exists compare it with SQLITE_ROW only, and return
\* std::nullopt and false.
StepError(c) ==
    IF c.op \in {"set", "remove", "remove_all"}
    THEN [c EXCEPT !.fault = "step", !.threw = TRUE]
    ELSE [c EXCEPT !.fault = "step"]

\* The value the thread's own calls left under its key once call c has
\* returned; a call that threw left it as it was.
OwnAfter(c) ==
    IF c.threw THEN c.own
    ELSE IF c.op = "set" THEN c.value
    ELSE IF c.op \in {"remove", "remove_all"} THEN nullopt
    ELSE c.own

\* Thread t calls an operation.
Call(t, op, value) ==
    /\ pc[t] = "idle"
    /\ pc' = [pc EXCEPT ![t] = "lock"]
    /\ calls' = [calls EXCEPT ![t] =
                    [NoRequest EXCEPT !.op = op,
                                      !.value = IF op = "set"
                                                THEN Some(value)
                                                ELSE nullopt,
                                      !.own = calls[t].own]]
    /\ UNCHANGED <<backend, fleet, con, txn, store_, table, mock, last, busy,
                   mutex_>>

\* The first statement of every operation constructs the lock: shared in
\* get and exists of MemoryKeyValueStore, exclusive everywhere else.
Acquire(t) ==
    /\ pc[t] = "lock"
    /\ IF backend = "memory" /\ calls[t].op \in Readers
       THEN /\ LockableShared(mutex_)
            /\ mutex_' = shared_lock(mutex_, t)
       ELSE /\ Lockable(mutex_)
            /\ mutex_' = unique_lock(mutex_, t)
    /\ pc' = [pc EXCEPT ![t] = IF backend = "memory" THEN "run" ELSE "bind"]
    /\ UNCHANGED <<backend, fleet, con, txn, store_, table, mock, last, busy,
                   calls>>

\* The body of an operation of MemoryKeyValueStore.
Run(t) ==
    /\ backend = "memory"
    /\ pc[t] = "run"
    /\ store_' = MemoryCall(store_, t, calls[t]).map
    /\ calls' = [calls EXCEPT ![t] = MemoryCall(store_, t, calls[t]).call]
    /\ pc' = [pc EXCEPT ![t] = "unlock"]
    /\ UNCHANGED <<backend, fleet, con, txn, table, mock, last, busy, mutex_>>

\* An operation of SQLiteKeyValueStore resets its statement, clears its
\* bindings and binds its parameters.
Bind(t) ==
    /\ backend = "sqlite"
    /\ pc[t] = "bind"
    /\ table' = ResetStatement(busy, table, txn, calls[t].op).rows
    /\ txn' = ResetStatement(busy, table, txn, calls[t].op).txn
    /\ busy' = busy \ {calls[t].op}
    /\ pc' = [pc EXCEPT ![t] = "step"]
    /\ UNCHANGED <<backend, fleet, con, store_, mock, last, calls, mutex_>>

\* A sqlite3_bind call returns an error code: the operation throws.
BindFails(t) ==
    /\ backend = "sqlite"
    /\ pc[t] = "bind"
    /\ table' = ResetStatement(busy, table, txn, calls[t].op).rows
    /\ txn' = ResetStatement(busy, table, txn, calls[t].op).txn
    /\ busy' = busy \ {calls[t].op}
    /\ calls' = [calls EXCEPT ![t].fault = "bind", ![t].threw = TRUE]
    /\ pc' = [pc EXCEPT ![t] = "unlock"]
    /\ UNCHANGED <<backend, fleet, con, store_, mock, last, mutex_>>

\* The operation steps its statement and reads the columns of the row or
\* the count of changes.
Step(t) ==
    /\ backend = "sqlite"
    /\ pc[t] = "step"
    /\ table' = SQLiteCall(table, t, calls[t]).rows
    /\ txn' = IF calls[t].op \in Readers
              THEN txn
              ELSE FinishWrite(busy, table, txn)
    /\ calls' = [calls EXCEPT ![t] = SQLiteCall(table, t, calls[t]).call]
    /\ busy' = IF calls[t].op \in Readers
               THEN StepSelect(busy, calls[t].op,
                               SQLite_exists(table, t, ThreadKey).ret)
               ELSE busy
    /\ pc' = [pc EXCEPT ![t] = "unlock"]
    /\ UNCHANGED <<backend, fleet, con, store_, mock, last, mutex_>>

\* sqlite3_step returns an error code with which the statement ends
\* (SQLITE_IOERR, SQLITE_FULL, SQLITE_CORRUPT, ...): nothing is read or
\* written.
StepFails(t) ==
    /\ backend = "sqlite"
    /\ pc[t] = "step"
    /\ \E r \in EndWithError(table, txn) :
           table' = r.rows /\ txn' = r.txn
    /\ calls' = [calls EXCEPT ![t] = StepError(calls[t])]
    /\ busy' = IF calls[t].op \in Readers
               THEN StepSelect(busy, calls[t].op, FALSE)
               ELSE busy
    /\ pc' = [pc EXCEPT ![t] = "unlock"]
    /\ UNCHANGED <<backend, fleet, con, store_, mock, last, mutex_>>

\* sqlite3_step of an INSERT or DELETE returns SQLITE_BUSY: another
\* connection to the file holds the write lock (the constructor sets no
\* busy timeout).  Nothing is written, the operation throws, and the
\* statement stays active, as SQLite leaves it for a retry.
StepBusy(t) ==
    /\ backend = "sqlite"
    /\ pc[t] = "step"
    /\ calls[t].op \in Writes
    /\ txn = {}
    /\ calls' = [calls EXCEPT ![t] = StepError(calls[t])]
    /\ busy' = busy \cup {calls[t].op}
    /\ pc' = [pc EXCEPT ![t] = "unlock"]
    /\ UNCHANGED <<backend, fleet, con, txn, store_, table, mock, last, mutex_>>

\* The operation returns or throws: the lock goes out of scope.
Release(t) ==
    /\ pc[t] = "unlock"
    /\ mutex_' = unlock(mutex_, t)
    /\ calls' = [calls EXCEPT ![t].own = OwnAfter(calls[t])]
    /\ pc' = [pc EXCEPT ![t] = "idle"]
    /\ UNCHANGED <<backend, fleet, con, txn, store_, table, mock, last, busy>>

\* The threads that call the store with every operation and value.
Workers == {1, 2}

NextThreads ==
    \E t \in Workers :
        \/ \E op \in Operations, value \in ThreadValues(t) : Call(t, op, value)
        \/ Acquire(t)
        \/ Run(t)
        \/ Bind(t)
        \/ Step(t)
        \/ Release(t)

SpecThreads == Init /\ [][NextThreads]_vars

NextThreadFaults ==
    \/ NextThreads
    \/ \E t \in Workers : BindFails(t)
    \/ \E t \in Workers : StepFails(t)

SpecThreadFaults == Init /\ [][NextThreadFaults]_vars


\* C13: when the threads call set, get, exists and remove on one shared
\* instance, each under its own script id, then in every interleaving a
\* get returns absent or a value the calling thread wrote (never a value of
\* another thread), a get that follows the thread's own set returns the
\* value just set, and a remove that follows it returns true.
C13_ConcurrentCorrectness ==
    \A t \in Threads :
        pc[t] = "unlock" =>
            /\ calls[t].op = "get" =>
                   /\ calls[t].ret_value \subseteq ThreadValues(t)
                   /\ calls[t].own # nullopt =>
                          /\ ~calls[t].threw
                          /\ calls[t].ret_value = calls[t].own
            /\ (calls[t].op = "remove" /\ calls[t].own # nullopt) =>
                   /\ ~calls[t].threw
                   /\ calls[t].ret_bool


\* Thread t is inside the critical section of its operation: it holds the
\* lock its operation constructed and has not left the operation.
Inside(t) == pc[t] \in {"run", "bind", "step", "unlock"}

\* C14: on the memory backend, while a set, remove or remove_all is inside
\* its critical section no other operation of any kind is inside its own;
\* several get and exists calls may be inside at the same time.
C14_ReadersWriterDiscipline ==
    backend = "memory" =>
        \A t \in Threads :
            (Inside(t) /\ calls[t].op \notin Readers) =>
                \A u \in Threads \ {t} : ~Inside(u)

\* Two readers are inside their critical sections at the same time.
C14_Witness ==
    /\ backend = "memory"
    /\ \E t \in Threads, u \in Threads :
           /\ t # u
           /\ pc[t] = "run" /\ calls[t].op = "get"
           /\ pc[u] = "run" /\ calls[u].op \in Readers
           /\ mutex_.shared = {t, u}

\* C15: on the durable backend at most one of the five operations is
\* between acquiring and releasing mutex_, whatever the operations are; an
\* operation resets, binds and steps its statement and reads its result
\* only while it holds mutex_.
C15_MutualExclusion ==
    backend = "sqlite" =>
        /\ Cardinality({t \in Threads : Inside(t)}) <= 1
        /\ mutex_.shared = {}
        /\ \A t \in Threads :
               pc[t] \in {"bind", "step", "unlock"} => mutex_.unique = {t}

\* A get steps its statement while another get waits for mutex_.
C15_Witness ==
    /\ backend = "sqlite"
    /\ \E t \in Threads, u \in Threads :
           /\ pc[t] = "step" /\ calls[t].op = "get"
           /\ pc[u] = "lock" /\ calls[u].op = "get"
           /\ ~ENABLED Acquire(u)

\* C17: when an operation of either backend has returned, normally or by
\* throwing KeyValueStoreError, its thread no longer holds mutex_; with no
\* operation inside its critical section the mutex is free for the next
\* call.
C17_LockReleasedOnEveryExit ==
    /\ \A t \in Threads :
           pc[t] \in {"idle", "lock"} =>
               t \notin (mutex_.unique \cup mutex_.shared)
    /\ (\A t \in Threads : ~Inside(t)) => Lockable(mutex_)

\* A get threw in deserialization, its thread is back in the caller, and
\* the other thread has acquired mutex_ since.
C17_Witness ==
    \E t \in Threads, u \in Threads :
        /\ pc[t] = "idle" /\ calls[t].op = "get"
        /\ calls[t].threw /\ calls[t].fault = "none"
        /\ pc[u] = "bind" /\ mutex_.unique = {u}


\* C19: on the durable backend an operation whose sqlite3_step ended in an
\* engine error reports KeyValueStoreError to its caller, never absent,
\* false, zero or success.
C19_StepFailuresNeverSwallowed ==
    \A t \in Threads :
        (pc[t] \in {"unlock", "idle"} /\ calls[t].fault = "step") =>
            calls[t].threw


\* ---------------------------------------------------------------------
\* Threads under fair scheduling
\* ---------------------------------------------------------------------

\* The steps thread t takes inside a call it has made.
ThreadStep(t) == Acquire(t) \/ Run(t) \/ Bind(t) \/ Step(t) \/ Release(t)

\* The calls of a contended instance: every thread keeps calling set and
\* get with one value; which thread is granted the mutex does not depend on
\* the values.
NextContention ==
    \E t \in Threads :
        \/ \E op \in {"set", "get"}, value \in {Integer(t)} :
               Call(t, op, value)
        \/ Acquire(t)
        \/ Run(t)
        \/ Bind(t)
        \/ Step(t)
        \/ Release(t)

\* Fair scheduling: a thread that stays able to take its next step takes it,
\* and a thread blocked in the constructor of its lock is granted the mutex
\* if the mutex can be granted to it again and again.  (The second is more
\* than std::mutex and std::shared_mutex promise: they neither hand the
\* mutex over to a waiting thread nor grant it in the order of arrival.)
\* While it is held, shared or exclusively, the mutex cannot be granted
\* exclusively.
SpecThreadsFair ==
    Init /\ [][NextContention]_vars
         /\ \A t \in Threads : WF_vars(ThreadStep(t)) /\ SF_vars(Acquire(t))

\* C16: under fair scheduling every call on a shared instance eventually
\* returns, whatever the other threads keep calling; in particular a
\* writer on the memory backend eventually gets the mutex while readers
\* keep arriving.
C16_NoIndefiniteBlocking ==
    \A t \in Threads : (pc[t] = "lock") ~> (pc[t] = "idle")


\* ---------------------------------------------------------------------
\* Failures
\* ---------------------------------------------------------------------

\* C25: on the memory backend set, get, exists, remove and remove_all
\* return a result and never raise KeyValueStoreError, whatever the
\* sequence of calls, the script id, the key (the empty key included) and
\* the value.
C25_MemoryNeverFails ==
    backend = "memory" => ~last.threw

\* A get of the empty key under the least script id has found nothing in a
\* memory store that holds entries.
C25_Witness ==
    /\ backend = "memory"
    /\ last.op = "get"
    /\ last.script_id = INT_MIN
    /\ last.key = <<>>
    /\ last.ret_value = nullopt
    /\ store_ # {}


\* ---------------------------------------------------------------------
\* Keys, texts, script ids and integers
\* ---------------------------------------------------------------------

\* C27: two different key strings of one partition, whatever bytes they
\* hold, are two entries: after set(P, K1, v1) followed by set(P, K2, v2)
\* get(P, K1) returns v1 and get(P, K2) returns v2, on both backends.
C27_DistinctKeysDistinctEntries ==
    [][(/\ last.op = "set"
        /\ last'.op = "set"
        /\ last'.script_id = last.script_id
        /\ last'.key # last.key) =>
           /\ GetAfter(last.script_id, last.key)
                  = [threw |-> FALSE, ret |-> last.value]
           /\ GetAfter(last'.script_id, last'.key)
                  = [threw |-> FALSE, ret |-> last'.value]
      ]_vars


\* C28: a text value is stored as it is, with tag 's', and comes back byte
\* for byte: after set(P, K, s) of a string s the row of (P, K) holds the
\* value s and the type "s", and get(P, K) returns the string s, whatever
\* bytes s holds.
C28_TextVerbatim ==
    \A v \in last.value :
        (last.op = "set" /\ v.kind = "string") =>
            /\ GetResult(last.script_id, last.key)
                   = [threw |-> FALSE, ret |-> Some(Text(v.s))]
            /\ backend = "sqlite" =>
                   \E r \in RowsOfKey(table, last.script_id,
                                      BindText(last.key)) :
                       r.value = v.s /\ r.type = <<"s">>


\* The decimal digits of 2^63 - 1 and of 2^63, the largest magnitudes of a
\* non-negative and of a negative signed 64-bit integer.
Int64MaxDigits ==
    <<"9", "2", "2", "3", "3", "7", "2", "0", "3", "6",
      "8", "5", "4", "7", "7", "5", "8", "0", "7">>

Int64MinDigits ==
    <<"9", "2", "2", "3", "3", "7", "2", "0", "3", "6",
      "8", "5", "4", "7", "7", "5", "8", "0", "8">>

\* digits is the decimal form, without sign, of a magnitude up to limit.
IsMagnitude(digits, limit) ==
    /\ digits # <<>>
    /\ \A j \in 1..Len(digits) : IsDigit(digits[j])
    /\ digits[1] = "0" => Len(digits) = 1
    /\ \/ Len(digits) < Len(limit)
       \/ Len(digits) = Len(limit) /\ ~DigitsLess(limit, digits)

\* str is the decimal form of an integer of the signed 64-bit range.
IsInt64Decimal(str) ==
    IF str # <<>> /\ str[1] = "-"
    THEN IsMagnitude(Tail(str), Int64MinDigits) /\ str # <<"-", "0">>
    ELSE IsMagnitude(str, Int64MaxDigits)

\* C30: a row tagged 'i' whose value is the decimal form of an integer n of
\* the signed 64-bit range is read by get as Integer n: get does not fail
\* and the integer it returns has that decimal form.
C30_Int64Readable ==
    \A r \in table :
        (/\ last.op = "get"
         /\ r.script_id = last.script_id
         /\ r.key = last.key
         /\ r.type = <<"i">>
         /\ IsInt64Decimal(r.value)) =>
            /\ ~last.threw
            /\ last.ret_value # nullopt
            /\ \A v \in last.ret_value :
                   v.kind = "int" /\ to_string(v.i) = r.value


\* A specification over the ends and the middle of the range of int: the
\* calls address the partitions INT_MIN, -1, 0 and INT_MAX under one key.
IdScriptIds == {INT_MIN, -1, 0, INT_MAX}

IdKeys == {<<"k">>}

IdValues == {Integer(1), Integer(2)}

NextIds ==
    \/ \E script_id \in IdScriptIds, key \in IdKeys, value \in IdValues :
           Set(script_id, key, value)
    \/ \E script_id \in IdScriptIds, key \in IdKeys : Get(script_id, key)
    \/ \E script_id \in IdScriptIds, key \in IdKeys : Exists(script_id, key)
    \/ \E script_id \in IdScriptIds, key \in IdKeys : Remove(script_id, key)
    \/ \E script_id \in IdScriptIds : RemoveAll(script_id)

SpecIds == Init /\ [][NextIds]_vars

\* C29: every script id of the range of int, the minimum, a negative id,
\* zero and the maximum included, names a partition of its own on both
\* backends: after every call each (id, key) pair has exactly the entry the
\* calls addressed to that id gave it, the store holds one entry per pair
\* set, and get, exists, remove and remove_all answer for the id they were
\* called with.
C29_ScriptIdsNeverAlias ==
    [][/\ \A q \in IdScriptIds, k \in IdKeys :
              /\ GetAfter(q, k)
                     = [threw |-> FALSE, ret |-> Mock_get(mock', q, k)]
              /\ ExistsAfter(q, k)
                     = [threw |-> FALSE, ret |-> Mock_exists(mock', q, k)]
       /\ Cardinality(Entries') = Cardinality(DOMAIN mock')
       /\ ~last'.threw
       /\ last'.op = "get" =>
              last'.ret_value = Mock_get(mock, last'.script_id, last'.key)
       /\ last'.op = "exists" =>
              last'.ret_bool = Mock_exists(mock, last'.script_id, last'.key)
       /\ last'.op = "remove" =>
              last'.ret_bool = Mock_exists(mock, last'.script_id, last'.key)
       /\ last'.op = "remove_all" =>
              last'.ret_count = Cardinality(EntriesOf(last'.script_id))
      ]_vars

\* remove_all(-1) has returned 1 and left the entries of INT_MIN and
\* INT_MAX, which hold different values under the same key.
C29_Witness ==
    /\ last.op = "remove_all"
    /\ last.script_id = -1
    /\ last.ret_count = 1
    /\ GetResult(INT_MIN, <<"k">>) = [threw |-> FALSE, ret |-> Some(Integer(1))]
    /\ GetResult(INT_MAX, <<"k">>) = [threw |-> FALSE, ret |-> Some(Integer(2))]
    /\ GetResult(-1, <<"k">>) = [threw |-> FALSE, ret |-> nullopt]


\* C26: the two backends are interchangeable: every call of every sequence
\* of calls made on a fresh MemoryKeyValueStore and on a SQLiteKeyValueStore
\* on a fresh file returns on both what the reference MockKeyValueStore
\* returns for it (the same presence, value and kind, the same boolean, the
\* same count), and none fails.
C26_BackendsInterchangeable ==
    [][/\ last'.op \in {"set", "get", "exists", "remove", "remove_all"} =>
              ~last'.threw
       /\ last'.op = "get" =>
              last'.ret_value = Mock_get(mock, last'.script_id, last'.key)
       /\ last'.op = "exists" =>
              last'.ret_bool = Mock_exists(mock, last'.script_id, last'.key)
       /\ last'.op = "remove" =>
              last'.ret_bool = Mock_exists(mock, last'.script_id, last'.key)
       /\ last'.op = "remove_all" =>
              last'.ret_count
                  = Cardinality(DOMAIN mock)
                      - Cardinality(DOMAIN Mock_remove_all(mock,
                                                          last'.script_id))
      ]_vars


\* ---------------------------------------------------------------------
\* Calls that fail
\* ---------------------------------------------------------------------
\* A specification of two threads whose calls can fail in every way a call
\* of SQLiteKeyValueStore fails: a bind error, a step error that ends the
\* statement, SQLITE_BUSY, and a value get cannot parse.  Thread 1 sets an
\* integer, thread 2 the smallest positive double, which get cannot read
\* back.
FaultValues(t) == IF t = 1 THEN {Integer(1)} ELSE {Real(DenormMin)}

NextFaults ==
    \E t \in Workers :
        \/ \E op \in Operations, value \in FaultValues(t) : Call(t, op, value)
        \/ Acquire(t)
        \/ Run(t)
        \/ Bind(t)
        \/ BindFails(t)
        \/ Step(t)
        \/ StepFails(t)
        \/ StepBusy(t)
        \/ Release(t)

SpecFaults == Init /\ [][NextFaults]_vars

\* C21: a failure ends the call that met it and nothing else: every call
\* that meets no failure itself, made after any number of failed calls on
\* the instance, returns what the calls that did not fail determine, as if
\* the failed calls had never been made: get the value the last successful
\* set left, exists and remove whether there is one, remove_all their
\* number.
C21_FailureEndsThatCallOnly ==
    \A t \in Workers :
        (pc[t] = "unlock" /\ ~calls[t].threw /\ calls[t].fault = "none") =>
            /\ calls[t].op = "get" => calls[t].ret_value = calls[t].own
            /\ calls[t].op = "exists" =>
                   calls[t].ret_bool = (calls[t].own # nullopt)
            /\ calls[t].op = "remove" =>
                   calls[t].ret_bool = (calls[t].own # nullopt)
            /\ calls[t].op = "remove_all" =>
                   calls[t].ret_count
                       = (IF calls[t].own # nullopt THEN 1 ELSE 0)

\* C22: a set, remove or remove_all that throws leaves the stored entries,
\* values and type indicators as they were when it was called, and an
\* operation steps its statement once and then returns or throws.
C22_NoPartialWriteNoRetry ==
    [][\A t \in Workers :
           /\ (/\ calls[t].op \in Writes
               /\ pc[t] \in {"bind", "step"}
               /\ calls'[t].threw) =>
                  /\ table' = table
                  /\ store_' = store_
           /\ (pc[t] = "step" /\ pc'[t] # "step") => pc'[t] = "unlock"
      ]_vars


\* ---------------------------------------------------------------------
\* Construction and destruction of a SQLiteKeyValueStore
\* ---------------------------------------------------------------------

\* The number of connection handles SQLite holds open at which the model
\* constructs no further instance.
MaxHandles == 3

\* The part of the state that belongs to the calls on an instance.
inst ==
    <<backend, fleet, store_, table, txn, mock, last, busy, pc, calls, mutex_>>

\* A faulty sqlite3_open that reports success for every path.
sqlite3_open_Anything(file) == "SQLITE_OK"

\* sqlite3_open(db_path.c_str(), &db_raw): the file is opened, and created
\* when it does not exist, but not read; the directory must exist.
sqlite3_open(file) ==
    IF file = "no directory" THEN "SQLITE_CANTOPEN" ELSE "SQLITE_OK"

\* sqlite3_exec of "PRAGMA journal_mode=WAL;", the first statement that
\* reads the header of the file.
journal_mode_WAL(file) ==
    IF file = "not a database" THEN "SQLITE_NOTADB" ELSE "SQLITE_OK"

\* sqlite3_close, the deleter of db_: SQLite closes a connection that has
\* no prepared statement left, and otherwise returns SQLITE_BUSY and keeps
\* it open.  n is the number of open handles, live the statements of the
\* connection.
sqlite3_close(n, live) == IF live = {} THEN n - 1 ELSE n

\* The destruction of the members, in reverse order of their declaration:
\* the five statements are finalized, then db_ is closed.  It runs in the
\* destructor and when the constructor throws.
DestroyMembers ==
    /\ statements' = statements \ stmts
    /\ stmts' = {}
    /\ handles' = IF db_ THEN sqlite3_close(handles, statements \ stmts)
                  ELSE handles
    /\ db_' = FALSE

\* throw KeyValueStoreError(...) in the constructor.
Throw ==
    /\ ctor' = "threw"
    /\ DestroyMembers

\* SQLiteKeyValueStore(db_path) is called; no other instance exists.
Construct(path) ==
    /\ backend = "sqlite"
    /\ ctor \in {"none", "threw"}
    /\ handles < MaxHandles
    /\ db_path' = path
    /\ ctor' = "open"
    /\ UNCHANGED <<inst, disk, db_, stmts, handles, statements>>

\* Lines 15-20: sqlite3_open allocates a connection handle, on failure
\* too, and stores it in the local db_raw; the constructor throws when the
\* result is not SQLITE_OK and hands the handle to db_ otherwise.  fault
\* stands for a failure the path does not explain (no file descriptor
\* left, permissions).
Open(fault) ==
    /\ ctor = "open"
    /\ handles' = handles + 1
    /\ IF ~fault /\ sqlite3_open(disk[db_path]) = "SQLITE_OK"
       THEN /\ db_' = TRUE
            /\ ctor' = "wal"
       ELSE /\ db_' = FALSE
            /\ ctor' = "threw"
    /\ UNCHANGED <<inst, disk, db_path, stmts, statements>>

\* Lines 22-28: PRAGMA journal_mode=WAL, which writes the header of a new
\* file.
Wal(fault) ==
    /\ ctor = "wal"
    /\ IF ~fault /\ journal_mode_WAL(disk[db_path]) = "SQLITE_OK"
       THEN /\ disk' = [disk EXCEPT ![db_path] = "database"]
            /\ ctor' = "schema"
            /\ UNCHANGED <<db_, stmts, handles, statements>>
       ELSE /\ Throw
            /\ UNCHANGED disk
    /\ UNCHANGED <<inst, db_path>>

\* Line 30: initializeSchema().
Schema(fault) ==
    /\ ctor = "schema"
    /\ IF ~fault
       THEN /\ ctor' = PrepareOrder[1]
            /\ UNCHANGED <<db_, stmts, handles, statements>>
       ELSE Throw
    /\ UNCHANGED <<inst, disk, db_path>>

\* Lines 32-66: sqlite3_prepare_v2 of the next statement, which its member
\* takes over at once.
Prepare(fault) ==
    /\ \E n \in 1..Len(PrepareOrder) :
           /\ ctor = PrepareOrder[n]
           /\ IF ~fault
              THEN /\ statements' = statements \cup {ctor}
                   /\ stmts' = stmts \cup {ctor}
                   /\ ctor' = IF n < Len(PrepareOrder)
                              THEN PrepareOrder[n + 1]
                              ELSE "constructed"
                   /\ UNCHANGED <<db_, handles>>
              ELSE Throw
    /\ UNCHANGED <<inst, disk, db_path>>

\* ~SQLiteKeyValueStore().
Destroy ==
    /\ backend = "sqlite"
    /\ ctor = "constructed"
    /\ ctor' = "none"
    /\ DestroyMembers
    /\ UNCHANGED <<inst, disk, db_path>>

\* No instance has been constructed yet.
InitConstruct ==
    /\ backend = "sqlite"
    /\ store_ = {}
    /\ table = {}
    /\ mock = EmptyMap
    /\ last = NoCall
    /\ busy = {}
    /\ txn = {}
    /\ InitThreads
    /\ NoInstances
    /\ disk = FreshDisk
    /\ db_path = "kv.db"
    /\ ctor = "none"
    /\ db_ = FALSE
    /\ stmts = {}
    /\ handles = 0
    /\ statements = {}

NextConstruct ==
    \/ \E path \in Paths : Construct(path)
    \/ \E fault \in BOOLEAN : Open(fault)
    \/ \E fault \in BOOLEAN : Wal(fault)
    \/ \E fault \in BOOLEAN : Schema(fault)
    \/ \E fault \in BOOLEAN : Prepare(fault)
    \/ Destroy

SpecConstruct == InitConstruct /\ [][NextConstruct]_vars


\* C23: the construction of a SQLiteKeyValueStore on a path whose
\* directory does not exist or whose file is not a database throws at the
\* first step that touches the file (sqlite3_open, the WAL pragma), runs no
\* later step and leaves no instance; and however many constructions have
\* failed, a construction on a path where a database can be opened or
\* created, whose steps meet no failure, does not throw.
C23_ConstructionFailsOrSucceeds ==
    [][/\ disk'[db_path'] = "no directory" =>
              ctor' \in {"none", "open", "threw"}
       /\ disk'[db_path'] = "not a database" =>
              ctor' \in {"none", "open", "wal", "threw"}
       /\ ctor' = "threw" => ~db_' /\ stmts' = {}
       /\ (/\ disk[db_path] \in {"absent", "database"}
           /\ \/ Open(FALSE)
              \/ Wal(FALSE)
              \/ Schema(FALSE)
              \/ Prepare(FALSE)) => ctor' # "threw"
      ]_vars

\* An instance stands constructed on the new path, where it created the
\* database, after an earlier construction failed at sqlite3_open.
C23_Witness ==
    /\ ctor = "constructed"
    /\ db_path = "new.db"
    /\ disk["new.db"] = "database"
    /\ handles = 2
    /\ stmts = {"set", "get", "exists", "remove", "remove_all"}

\* C24: when the constructor throws, at sqlite3_open, at the WAL pragma, in
\* initializeSchema or at the preparation of any of the five statements,
\* everything it acquired is released: no connection handle stays open and
\* no prepared statement stays unfinalized.
C24_FailedConstructionReleasesAll ==
    ctor = "threw" => handles = 0 /\ statements = {}


\* The place of each step of the constructor in the initialization
\* protocol.
StepRank(step) ==
    CASE step = "open"       -> 1
      [] step = "wal"        -> 2
      [] step = "schema"     -> 3
      [] step = "set"        -> 4
      [] step = "get"        -> 5
      [] step = "exists"     -> 6
      [] step = "remove"     -> 7
      [] step = "remove_all" -> 8
      [] OTHER               -> 0

\* The statements prepared once the constructor stands at step.
PreparedBefore(step) ==
    {x \in {"set", "get", "exists", "remove", "remove_all"} :
        StepRank(x) < StepRank(step)}

\* C33: the constructor opens the file, enables WAL, creates the schema and
\* prepares the statements of set, get, exists, remove and remove_all, in
\* this order; a step that fails ends the construction and no later step
\* runs; and an instance on which an operation can be called owns a
\* connection and all five statements, which SQLite holds until the
\* instance is destroyed.
C33_InitializationOrder ==
    [][/\ StepRank(ctor) > 0 =>
              \/ ctor' = ctor
              \/ ctor' = "threw"
              \/ StepRank(ctor') = StepRank(ctor) + 1
              \/ ctor = "remove_all" /\ ctor' = "constructed"
       /\ StepRank(ctor') > 1 =>
              StepRank(ctor) > 0 /\ stmts' = PreparedBefore(ctor')
       /\ ctor' = "constructed" => ctor \in {"remove_all", "constructed"}
       /\ ctor' = "constructed" =>
              /\ db_'
              /\ stmts' = {"set", "get", "exists", "remove", "remove_all"}
              /\ statements' = stmts'
       /\ ctor = "threw" => ctor' \in {"threw", "open"}
      ]_vars

\* The constructor has gone through every step on the database file and
\* the instance owns its five statements.
C33_Witness ==
    /\ ctor = "constructed"
    /\ db_path = "kv.db"
    /\ disk["kv.db"] = "database"
    /\ db_
    /\ statements = {"set", "get", "exists", "remove", "remove_all"}


\* C37: every row of a store that its own set, remove and remove_all wrote
\* on a file it created carries one of the tags s, i, d and b and a value
\* text deserializeValue accepts, so get raises no serialization failure
\* on the data of the store.
C37_OwnRowsWellFormed ==
    backend = "sqlite" =>
        /\ \A row \in table : WellFormedRow(row)
        /\ \A script_id \in RoundTripScriptIds, key \in RoundTripKeys :
               ~GetResult(script_id, key).threw


\* C38: get and exists are read-only on both backends: no step of a get or
\* an exists changes the stored entries, whether the call returns a value,
\* absent, true, false or a failure, so a read that is repeated with no
\* write between returns the same result.
C38_ReadsChangeNothing ==
    [][\A t \in Threads :
           (calls[t].op \in Readers /\ pc'[t] # pc[t]) =>
               /\ store_' = store_
               /\ table' = table
      ]_vars


\* C39: a prepared statement carries no state from one call to the next:
\* every operation of the durable backend, holding the lock from its first
\* step to its last, resets its statement and binds the parameters of the
\* current call before it steps, and steps only when every bind succeeded;
\* so resetting and binding leave the stored entries as they are, the
\* statement is not active when it is stepped, and what the call returns
\* and writes is a function of its arguments and of the stored entries.
C39_StatementsCarryNoState ==
    [][\A t \in Threads :
           /\ (pc'[t] = "step" /\ pc[t] # "step") =>
                  /\ pc[t] = "bind"
                  /\ calls'[t].fault = "none"
                  /\ calls[t].op \notin busy'
           /\ pc[t] \in {"bind", "step"} => mutex_.unique = {t}
           /\ (pc[t] = "bind" /\ pc'[t] # "bind") => table' = table
           /\ (/\ pc[t] = "step"
               /\ pc'[t] # "step"
               /\ calls'[t].fault = "none") =>
                  /\ table' = SQLiteCall(table, t, calls[t]).rows
                  /\ calls'[t] = SQLiteCall(table, t, calls[t]).call
      ]_vars



\* Thread t, blocked in the constructor of its lock, can be granted the
\* mutex.
Grantable(t) ==
    IF backend = "memory" /\ calls[t].op \in Readers
    THEN LockableShared(mutex_)
    ELSE Lockable(mutex_)

\* Thread t, inside its operation, can take its next step.
CanStep(t) ==
    \/ pc[t] = "run" /\ backend = "memory"
    \/ pc[t] \in {"bind", "step"} /\ backend = "sqlite"
    \/ pc[t] = "unlock"

\* C36: no interleaving of calls on one instance deadlocks: an operation
\* holds at most one lock, which it acquired once, and while it holds it
\* the operation can always take its next step (it never waits for a lock
\* or for another call); so whenever a thread waits for mutex_, a thread
\* that holds it is inside its operation and can go on, and when no thread
\* is inside an operation a waiting thread can be granted the mutex.
C36_DeadlockFree ==
    /\ \A t \in Threads :
           /\ ~(t \in mutex_.unique /\ t \in mutex_.shared)
           /\ t \in (mutex_.unique \cup mutex_.shared) <=> Inside(t)
           /\ Inside(t) => CanStep(t)
           /\ (pc[t] = "lock" /\ ~Grantable(t)) =>
                  \E u \in Threads \ {t} : Inside(u) /\ CanStep(u)
    /\ (\E t \in Threads : pc[t] # "idle") =>
           \E u \in Threads :
               \/ Inside(u) /\ CanStep(u)
               \/ pc[u] = "lock" /\ Grantable(u)

\* On the memory backend a set waits for the mutex that a get holds in
\* shared mode.
C36_Witness ==
    /\ backend = "memory"
    /\ \E t \in Threads, u \in Threads :
           /\ pc[t] = "lock" /\ calls[t].op = "set"
           /\ ~Grantable(t)
           /\ pc[u] = "run" /\ calls[u].op = "get"
           /\ mutex_ = [unique |-> {}, shared |-> {u}]



\* ---------------------------------------------------------------------
\* Threads on one partition and key
\* ---------------------------------------------------------------------

\* The partition the threads of the contention tests share.
SharedId == 1

\* A second key of the shared partition, set before the threads start.
SeedKey == <<"j">>

\* The value thread t sets under the shared key: thread 1 a string with a
\* zero byte, every other thread an int of its own.
SharedValues(t) ==
    IF t = 1
    THEN {Text(<<"x", NUL, "y">>)}
    ELSE {Integer(t)}

\* The call of c on the reference map.
MockCall(map, c) ==
    CASE c.op = "set" -> Mock_set(map, SharedId, ThreadKey, ValueOf(c))
      [] c.op = "remove" -> Mock_remove(map, SharedId, ThreadKey)
      [] c.op = "remove_all" -> Mock_remove_all(map, SharedId)
      [] OTHER -> map

\* The store after set(SharedId, SeedKey, 0), no thread in a call.
InitShared ==
    /\ backend \in {"memory", "sqlite"}
    /\ store_ = IF backend = "memory"
                THEN Memory_set({}, SharedId, SeedKey, Integer(0))
                ELSE {}
    /\ table = IF backend = "sqlite"
               THEN SQLite_set({}, SharedId, SeedKey, Integer(0)).rows
               ELSE {}
    /\ mock = Mock_set(EmptyMap, SharedId, SeedKey, Integer(0))
    /\ last = NoCall
    /\ busy = {}
    /\ txn = {}
    /\ InitThreads
    /\ NoInstances
    /\ Constructed("new.db")

\* The body of an operation of MemoryKeyValueStore on the shared partition.
RunShared(t) ==
    /\ backend = "memory"
    /\ pc[t] = "run"
    /\ store_' = MemoryCall(store_, SharedId, calls[t]).map
    /\ calls' = [calls EXCEPT ![t] =
                    MemoryCall(store_, SharedId, calls[t]).call]
    /\ mock' = MockCall(mock, calls[t])
    /\ pc' = [pc EXCEPT ![t] = "unlock"]
    /\ UNCHANGED <<backend, fleet, con, txn, table, last, busy, mutex_>>

\* The step of the statement of an operation of SQLiteKeyValueStore on the
\* shared partition.
StepShared(t) ==
    /\ backend = "sqlite"
    /\ pc[t] = "step"
    /\ table' = SQLiteCall(table, SharedId, calls[t]).rows
    /\ txn' = IF calls[t].op \in Readers
              THEN txn
              ELSE FinishWrite(busy, table, txn)
    /\ calls' = [calls EXCEPT ![t] =
                    SQLiteCall(table, SharedId, calls[t]).call]
    /\ mock' = MockCall(mock, calls[t])
    /\ busy' = IF calls[t].op \in Readers
               THEN StepSelect(busy, calls[t].op,
                               SQLite_exists(table, SharedId, ThreadKey).ret)
               ELSE busy
    /\ pc' = [pc EXCEPT ![t] = "unlock"]
    /\ UNCHANGED <<backend, fleet, con, store_, last, mutex_>>

NextShared ==
    \E t \in Threads :
        \/ \E op \in Operations, value \in SharedValues(t) :
               Call(t, op, value)
        \/ Acquire(t)
        \/ RunShared(t)
        \/ Bind(t)
        \/ StepShared(t)
        \/ Release(t)

SpecShared == InitShared /\ [][NextShared]_vars

\* The values some set wrote under the shared key.
Written == UNION {SharedValues(t) : t \in Threads}

\* C34: when threads call set and get on the same partition and key of one
\* instance, every get returns absent or exactly one value that some set
\* wrote, never a mixture, and the results are those of the calls run one
\* at a time in an order that keeps each call between its invocation and
\* its return: each get returns what the reference map holds, on which the
\* calls are made in the order of their critical sections.
C34_ReadsAreAtomicSnapshots ==
    \A t \in Threads :
        (pc[t] = "unlock" /\ calls[t].op = "get") =>
            /\ ~calls[t].threw
            /\ calls[t].ret_value \subseteq Written
            /\ Cardinality(calls[t].ret_value) <= 1
            /\ calls[t].ret_value = Mock_get(mock, SharedId, ThreadKey)


InstanceValues(t) == {Integer(t)}

\* The rows a connection reads: those its open read transaction sees, or
\* the committed rows of the file when it holds none.
Snapshot(rows, pinned) ==
    IF pinned = {} THEN rows ELSE CHOOSE r \in pinned : TRUE

\* A faulty MemoryKeyValueStore whose store_ is a static member.
StoreOfStatic(maps, t) == maps[1]

\* store_ of instance t, a member of the instance.
StoreOf(maps, t) == maps[t]

\* Two instances of one backend, constructed: two memory stores, or two
\* durable stores that opened one file or two files.
InitInstances ==
    /\ backend \in {"memory", "sqlite"}
    /\ store_ = {}
    /\ table = {}
    /\ mock = EmptyMap
    /\ last = NoCall
    /\ busy = {}
    /\ txn = {}
    /\ pc = [t \in Threads |-> "idle"]
    /\ calls = [t \in Threads |-> NoCall]
    /\ mutex_ = [unique |-> {}, shared |-> {}]
    /\ Constructed("new.db")
    /\ files = [f \in Files |-> {}]
    /\ IF backend = "memory"
       THEN opened = [t \in Instances |-> "none"]
       ELSE \E f \in Files :
                opened = [t \in Instances |-> IF t = 1 THEN "a.db" ELSE f]
    /\ stores = [t \in Instances |-> {}]
    /\ actives = [t \in Instances |-> {}]
    /\ snap = [t \in Instances |-> {}]
    /\ behind = {}
    /\ wlock = [f \in Files |-> 0]

\* The two instances are durable stores on one database file.
SameFile == backend = "sqlite" /\ opened[1] = opened[2]

\* The script ids instance t calls op with: on one file each thread
\* writes the partition of its own id, as in demonstrate_concurrent_access.
PartitionsOf(t, op) ==
    IF SameFile /\ op \in Writes THEN {t} ELSE Instances

\* The thread of instance t calls an operation on it.
Invoke(t, op, script_id, value) ==
    /\ pc[t] = "idle"
    /\ calls' = [calls EXCEPT ![t] =
                    [NoCall EXCEPT !.op = op,
                                   !.script_id = script_id,
                                   !.key = ThreadKey,
                                   !.value = IF op = "set"
                                             THEN Some(value)
                                             ELSE nullopt]]
    /\ pc' = [pc EXCEPT ![t] = IF backend = "memory" THEN "run" ELSE "bind"]
    /\ UNCHANGED <<backend, fleet, con, txn, store_, table, mock, last, busy,
                   mutex_>>

\* The body of an operation of the MemoryKeyValueStore t.
RunInstance(t) ==
    /\ backend = "memory"
    /\ pc[t] = "run"
    /\ stores' = [stores EXCEPT ![t] =
                     MemoryCall(StoreOf(stores, t), calls[t].script_id,
                                calls[t]).map]
    /\ calls' = [calls EXCEPT ![t] =
                    MemoryCall(StoreOf(stores, t), calls[t].script_id,
                               calls[t]).call]
    /\ pc' = [pc EXCEPT ![t] = "idle"]
    /\ UNCHANGED <<backend, con, txn, store_, table, mock, last, busy, mutex_,
                   files, opened, actives, snap, behind, wlock>>

\* get and exists of the SQLiteKeyValueStore t: sqlite3_reset ends the
\* execution the last call left, and with it the read transaction when no
\* other statement of the connection is active; sqlite3_step reads the
\* rows of the read transaction, a new one when none is open, and leaves
\* the statement active when it returned a row.  In WAL mode a reader never
\* waits for a writer.
ReadInstance(t) ==
    /\ backend = "sqlite"
    /\ pc[t] = "bind"
    /\ calls[t].op \in Readers
    /\ LET rest == actives[t] \ {calls[t].op}
           rows == Snapshot(files[opened[t]],
                            IF rest = {} THEN {} ELSE snap[t])
           left == StepSelect(rest, calls[t].op,
                              SQLite_exists(rows, calls[t].script_id,
                                            ThreadKey).ret)
       IN  /\ calls' = [calls EXCEPT ![t] =
                           SQLiteCall(rows, calls[t].script_id,
                                      calls[t]).call]
           /\ actives' = [actives EXCEPT ![t] = left]
           /\ snap' = [snap EXCEPT ![t] = IF left = {} THEN {} ELSE {rows}]
           /\ behind' = IF rest = {} THEN behind \ {t} ELSE behind
    /\ pc' = [pc EXCEPT ![t] = "idle"]
    /\ UNCHANGED <<backend, con, txn, store_, table, mock, last, busy, mutex_,
                   files, opened, stores, wlock>>

\* sqlite3_step of set, remove and remove_all of the SQLiteKeyValueStore t
\* begins a write transaction: no other connection holds the write lock of
\* the file, and the read transaction of the connection, if a statement
\* left active holds one, has seen the last commit.
WriteLock(t) ==
    /\ backend = "sqlite"
    /\ pc[t] = "bind"
    /\ calls[t].op \in Writes
    /\ wlock[opened[t]] = 0
    /\ ~(actives[t] # {} /\ t \in behind)
    /\ wlock' = [wlock EXCEPT ![opened[t]] = t]
    /\ pc' = [pc EXCEPT ![t] = "step"]
    /\ UNCHANGED <<backend, con, txn, store_, table, mock, last, busy, mutex_,
                   calls, files, opened, stores, actives, snap, behind>>

\* sqlite3_step of set, remove and remove_all returns SQLITE_BUSY: another
\* connection holds the write lock of the file, or the read transaction of
\* the connection is out of date (SQLITE_BUSY_SNAPSHOT).  The constructor
\* sets no busy timeout, so the step does not wait: the operation throws,
\* the thread leaves its loop and the instance is destroyed.
WriteBusy(t) ==
    /\ backend = "sqlite"
    /\ pc[t] = "bind"
    /\ calls[t].op \in Writes
    /\ \/ wlock[opened[t]] # 0
       \/ actives[t] # {} /\ t \in behind
    /\ calls' = [calls EXCEPT ![t].threw = TRUE]
    /\ actives' = [actives EXCEPT ![t] = {}]
    /\ snap' = [snap EXCEPT ![t] = {}]
    /\ behind' = behind \ {t}
    /\ pc' = [pc EXCEPT ![t] = "done"]
    /\ UNCHANGED <<backend, con, txn, store_, table, mock, last, busy, mutex_,
                   files, opened, stores, wlock>>

\* The INSERT or DELETE runs and commits, the write lock is released: the
\* read transactions other connections hold on the file are out of date
\* when the statement wrote.
WriteCommit(t) ==
    /\ backend = "sqlite"
    /\ pc[t] = "step"
    /\ LET rows == Snapshot(files[opened[t]], snap[t])
           done == SQLiteCall(rows, calls[t].script_id, calls[t])
       IN  /\ files' = [files EXCEPT ![opened[t]] = done.rows]
           /\ calls' = [calls EXCEPT ![t] = done.call]
           /\ snap' = [snap EXCEPT ![t] =
                          IF actives[t] = {} THEN {} ELSE {done.rows}]
           /\ behind' = IF calls[t].op = "set" \/ done.rows # rows
                        THEN behind \cup
                                 {u \in Instances \ {t} :
                                      opened[u] = opened[t] /\ snap[u] # {}}
                        ELSE behind
    /\ wlock' = [wlock EXCEPT ![opened[t]] = 0]
    /\ pc' = [pc EXCEPT ![t] = "idle"]
    /\ UNCHANGED <<backend, con, txn, store_, table, mock, last, busy, mutex_,
                   opened, stores, actives>>

NextInstances ==
    \E t \in Instances :
        \/ \E op \in Operations, value \in InstanceValues(t) :
               \E script_id \in PartitionsOf(t, op) :
                   Invoke(t, op, script_id, value)
        \/ RunInstance(t)
        \/ ReadInstance(t)
        \/ WriteLock(t)
        \/ WriteBusy(t)
        \/ WriteCommit(t)

SpecInstances == InitInstances /\ [][NextInstances]_vars

\* What get, exists, remove and remove_all return for script id p on a
\* MemoryKeyValueStore with the map and on a connection that reads rows.
MemoryAnswers(map, p) ==
    <<Memory_get(map, p, ThreadKey),
      Memory_exists(map, p, ThreadKey),
      Memory_remove(map, p, ThreadKey).ret,
      Memory_remove_all(map, p).ret>>

SQLiteAnswers(rows, p) ==
    <<SQLite_get(rows, p, ThreadKey).ret,
      SQLite_exists(rows, p, ThreadKey).ret,
      SQLite_remove(rows, p, ThreadKey).ret,
      SQLite_remove_all(rows, p).ret>>

\* What the four operations return, for each script id, on an instance of
\* backend b whose store_ is map and whose connection reads rows.
AnswersOf(b, map, rows) ==
    [p \in Instances |->
        IF b = "memory" THEN MemoryAnswers(map, p) ELSE SQLiteAnswers(rows, p)]

\* What the four operations return when they are called next on instance
\* t.
Answers(t) ==
    AnswersOf(backend, StoreOf(stores, t),
              Snapshot(files[opened[t]], snap[t]))

\* C32: instances with different backing storage, two memory stores or two
\* durable stores on different files, are independent: no step of an
\* operation on one changes what get, exists, remove and remove_all return
\* on the other, for the same script id and key too.
C32_InstancesIndependent ==
    [][\A t \in Instances :
           (~SameFile /\ pc'[t] # pc[t]) =>
               \A u \in Instances \ {t} :
                   AnswersOf(backend, StoreOf(stores', u),
                             Snapshot(files'[opened[u]], snap'[u]))
                       = Answers(u)
      ]_vars

\* Two durable stores on different files hold different values under the
\* same script id and key.
C32_Witness ==
    /\ backend = "sqlite"
    /\ opened[1] # opened[2]
    /\ Answers(1)[1][1] = Some(Integer(1))
    /\ Answers(2)[1][1] = Some(Integer(2))

\* C31: independent durable instances on one file, one for each thread,
\* each thread writing the partition of its own id: in every interleaving
\* no set throws, a get returns the committed value of its key, so the
\* get that follows a set through the same instance returns the value
\* just set, and a value committed through one instance is returned by a
\* later get through the other.
C31_InstancesOnOneFile ==
    [][\A t \in Instances :
           (SameFile /\ pc'[t] # pc[t]) =>
               /\ pc'[t] # "done"
               /\ ~calls'[t].threw
               /\ (pc'[t] = "idle" /\ calls[t].op = "get") =>
                      calls'[t].ret_value
                          = SQLite_get(files[opened[t]],
                                       calls[t].script_id, ThreadKey).ret
      ]_vars

============================================================================
